---- MODULE Spec2Model ----
(***************************************************************************)
(* Model of the zotero-direct plugin: the extraction of references from    *)
(* the Zotero database (zotero-db.ts), the cache manager                   *)
(* (zotero-cache.ts), the flows that drive them (the reference picker's    *)
(* onOpen and the settings tab's cache rebuild) and the debounced search   *)
(* of the reference picker.                                                *)
(*                                                                         *)
(* Searched texts are sequences of character codes.  An optional value (a *)
(* JavaScript null or a value) is the empty sequence or a one-element      *)
(* sequence.  Times are whole seconds since the epoch.                     *)
(***************************************************************************)
EXTENDS Integers, Sequences, FiniteSets, TLC

VARIABLES db, dbMtime, ex, disk, singleton, mgrs, flows, modal, settings

vars == <<db, dbMtime, ex, disk, singleton, mgrs, flows, modal, settings>>

\* ------------------------------------------------------------------ bounds

\* Item ids of the source database are 1..MaxItems.
MaxItems == 2

\* Times range over 0..MaxTime.
MaxTime == 3

\* Seconds per calendar day of the modelled clock.
DayLen == 2

\* ------------------------------------------------------------- optionals

\* The plugin settings once a database path is configured.
ConfiguredSettings == [zoteroDbPath |-> "P"]

None == <<>>

Some(x) == <<x>>

The(o) == o[1]

\* ----------------------------------------------------- the source database

ItemIds == 1 .. MaxItems

Times == 0 .. MaxTime

Keys == {"a", "b", "c"}

\* Item types the item queries exclude.
AuxTypes == {"attachment", "note", "annotation"}

\* Character codes of the separators of the two date formats.
SPACE == 32

CHAR_T == 84

\* The text of an items.dateModified / items.dateAdded column for time t:
\* 'YYYY-MM-DD HH:MM:SS'.  Each zero-padded digit group is one element (it
\* compares as its number), the separator is its character code.
SqlDateTime(t) == <<t \div DayLen, SPACE, t % DayLen>>

\* new Date(t).toISOString(): 'YYYY-MM-DDTHH:MM:SS.sssZ'.
toISOString(t) == <<t \div DayLen, CHAR_T, t % DayLen, 0>>

\* a > b for two texts, as SQLite's BINARY collation compares them.
RECURSIVE TextGreater(_, _)
TextGreater(a, b) ==
    IF a = <<>> THEN FALSE
    ELSE IF b = <<>> THEN TRUE
    ELSE IF Head(a) # Head(b) THEN Head(a) > Head(b)
    ELSE TextGreater(Tail(a), Tail(b))

\* String.prototype.trim on the captured group of the extra-field pattern:
\* the capture is a key, or blank.
trim(s) == IF s = " " THEN "" ELSE s

\* fields.extra.match(/^Citation Key:\s*(.+)$/im): the extra field is absent
\* (None) or holds a line that either carries the label or does not; the
\* capture "" stands for a label with nothing after it (no match), " " for
\* blanks after it.
extraMatch(extra) ==
    IF extra = None THEN None
    ELSE IF The(extra).labelled /\ The(extra).capture # ""
         THEN Some(The(extra).capture)
         ELSE None

\* extractBBTCiteKeys, and the catch around it in the two readers: the
\* mapping of the key-manager store, or the empty mapping when the store
\* cannot be read.
extractBBTCiteKeys(d, bbtOk) ==
    [i \in ItemIds |-> IF bbtOk THEN d[i].bbt ELSE ""]

\* A precedence in which the record's own field wins over the key manager.
resolveFieldFirst(bbtCiteKeys, itemID, fields) ==
    IF fields.citationKey # "" THEN fields.citationKey
    ELSE IF bbtCiteKeys[itemID] # "" THEN bbtCiteKeys[itemID]
    ELSE IF extraMatch(fields.extra) # None
         THEN trim(The(extraMatch(fields.extra)))
         ELSE ""

\* The citation key of a record: key manager, then the citationKey field,
\* then the extra-field pattern; "" when none resolves.
resolveCitationKey(bbtCiteKeys, itemID, fields) ==
    IF bbtCiteKeys[itemID] # "" THEN bbtCiteKeys[itemID]
    ELSE IF fields.citationKey # "" THEN fields.citationKey
    ELSE IF extraMatch(fields.extra) # None
         THEN trim(The(extraMatch(fields.extra)))
         ELSE ""

\* The rows of a set of item ids in rowid order.
RECURSIVE RowsInOrder(_, _)
RowsInOrder(S, n) ==
    IF n = 0 THEN <<>>
    ELSE RowsInOrder(S, n - 1) \o (IF n \in S THEN <<n>> ELSE <<>>)

\* The item query of a full read: regular items that are not deleted.
queryItems(d) ==
    RowsInOrder({i \in ItemIds : d[i].itemType \notin AuxTypes
                                 /\ ~d[i].deleted}, MaxItems)

\* The item query of an incremental read: the same rows, restricted to
\* those whose dateModified or dateAdded text is greater than the ISO text
\* of sinceTimestamp.
queryItemsSince(d, sinceTimestamp) ==
    LET sinceDate == toISOString(sinceTimestamp)
    IN  RowsInOrder({i \in ItemIds :
                        /\ d[i].itemType \notin AuxTypes
                        /\ ~d[i].deleted
                        /\ \/ TextGreater(SqlDateTime(d[i].dateModified), sinceDate)
                           \/ TextGreater(SqlDateTime(d[i].dateAdded), sinceDate)},
                    MaxItems)

\* The date field of the items: the text "2020-01".
ItemDate == <<50, 48, 50, 48, 45, 48, 49>>

\* The Reference built for a row; year is one of the fields left empty for
\* parseMetadata.
Reference(itemID, citationKey, item) ==
    [itemID |-> itemID, itemKey |-> item.itemKey, citationKey |-> citationKey,
     itemType |-> item.itemType, date |-> item.date,
     dateModified |-> item.dateModified, year |-> <<>>]

\* The loop that builds the references of the rows, skipping the rows
\* without a citation key.
RECURSIVE buildReferences(_, _, _)
buildReferences(d, bbtCiteKeys, rows) ==
    IF rows = <<>> THEN <<>>
    ELSE LET itemID == Head(rows)
             citationKey == resolveCitationKey(bbtCiteKeys, itemID, d[itemID])
         IN  (IF citationKey = "" THEN <<>>
              ELSE <<Reference(itemID, citationKey, d[itemID])>>)
             \o buildReferences(d, bbtCiteKeys, Tail(rows))

extractItems(d, bbtCiteKeys) == buildReferences(d, bbtCiteKeys, queryItems(d))

\* The collections of the database (not modelled further).
extractCollections(d) == 0

\* readZoteroDatabase on a readable database.
readZoteroDatabase(d, bbtOk) ==
    [items |-> extractItems(d, extractBBTCiteKeys(d, bbtOk)),
     collections |-> extractCollections(d)]

CitationKeysOf(items) == [n \in 1 .. Len(items) |-> items[n].citationKey]

\* readZoteroDatabaseIncremental on a readable database: null when the item
\* query returns no row.
readZoteroDatabaseIncremental(d, sinceTimestamp, bbtOk) ==
    LET rows == queryItemsSince(d, sinceTimestamp)
        references == buildReferences(d, extractBBTCiteKeys(d, bbtOk), rows)
    IN  IF rows = <<>> THEN None
        ELSE Some([items |-> references,
                   updatedItemKeys |-> CitationKeysOf(references),
                   collections |-> extractCollections(d)])

\* getDbModificationTime: the mtime of the database file, 0 when the file
\* does not exist (dbFile is None).
getDbModificationTime(dbFile) == IF dbFile = None THEN 0 ELSE The(dbFile)


\* ------------------------------------------------ extraction, on its own

\* A record of the source database: the items row, the key-manager entry
\* for it (bbt, "" when it has none) and the two itemData fields that can
\* carry a citation key.
ItemRow(itemType, deleted, bbt, citationKey, extra, dateAdded, dateModified) ==
    [itemKey |-> "P", itemType |-> itemType, deleted |-> deleted, bbt |-> bbt,
     citationKey |-> citationKey, extra |-> extra, date |-> ItemDate,
     dateAdded |-> dateAdded, dateModified |-> dateModified]

\* The extra-field contents drawn: absent, a line without the label, the
\* label followed by nothing, by blanks, by a key.
ExtraDrawn ==
    {None, Some([labelled |-> FALSE, capture |-> "b"])}
    \cup {Some([labelled |-> TRUE, capture |-> c]) : c \in {"", " ", "b"}}

\* Databases that vary the three places a citation key can come from.
KeyRows ==
    {ItemRow("journalArticle", FALSE, bbt, ck, extra, DayLen, DayLen) :
        bbt \in {"", "a"}, ck \in {"", "a", "b"}, extra \in ExtraDrawn}

\* Databases that vary the kind of the item and its two times.
SinceRows ==
    {ItemRow(td[1], td[2], "", "a", None, tm[1], tm[2]) :
        td \in {<<"journalArticle", FALSE>>, <<"attachment", FALSE>>,
                <<"journalArticle", TRUE>>},
        tm \in {p \in Times \X Times : p[1] <= p[2]}}

\* The last extraction call and its result.
NoCall == [op |-> "none", bbtOk |-> TRUE, since |-> 0, full |-> None, inc |-> None]

ExtractInit ==
    /\ settings = ConfiguredSettings
    /\ db \in [ItemIds -> KeyRows] \cup [ItemIds -> SinceRows]
    /\ dbMtime = MaxTime
    /\ ex = NoCall
    /\ disk = None
    /\ singleton = 0
    /\ mgrs = <<>>
    /\ flows = <<>>
    /\ modal = <<>>

\* A call of readZoteroDatabase; the key-manager store is readable or not.
ExtractFull ==
    /\ ex.op = "none"
    /\ \E bbtOk \in BOOLEAN :
          ex' = [op |-> "full", bbtOk |-> bbtOk, since |-> 0,
                 full |-> Some(readZoteroDatabase(db, bbtOk)), inc |-> None]
    /\ UNCHANGED <<settings, db, dbMtime, disk, singleton, mgrs, flows, modal>>

\* A call of readZoteroDatabaseIncremental with some sinceTimestamp.
ExtractIncremental ==
    /\ ex.op = "none"
    /\ \E bbtOk \in BOOLEAN, since \in Times :
          ex' = [op |-> "inc", bbtOk |-> bbtOk, since |-> since, full |-> None,
                 inc |-> readZoteroDatabaseIncremental(db, since, bbtOk)]
    /\ UNCHANGED <<settings, db, dbMtime, disk, singleton, mgrs, flows, modal>>

ExtractNext == ExtractFull \/ ExtractIncremental

SpecExtract == ExtractInit /\ [][ExtractNext]_vars

\* The items the last extraction call returned (none for a null result).
Extracted ==
    IF ex.op = "full" THEN The(ex.full).items
    ELSE IF ex.op = "inc" /\ ex.inc # None THEN The(ex.inc).items
    ELSE <<>>

\* C8: an incremental read returns exactly the regular, non-deleted records
\* with a resolvable citation key whose modification or creation time is
\* after sinceTimestamp.
C8_IncrementalExact ==
    ex.op = "inc" =>
        {Extracted[n].itemID : n \in 1 .. Len(Extracted)}
        = {i \in ItemIds :
              /\ db[i].itemType \notin AuxTypes
              /\ ~db[i].deleted
              /\ resolveCitationKey(extractBBTCiteKeys(db, ex.bbtOk), i, db[i]) # ""
              /\ (db[i].dateModified > ex.since \/ db[i].dateAdded > ex.since)}

\* C9: no two entries of the result of a full read have the same citation
\* key.
C9_KeysUnique ==
    ex.op = "full" =>
        \A m, n \in 1 .. Len(Extracted) :
            Extracted[m].citationKey = Extracted[n].citationKey => m = n

\* The key the precedence of the specification gives record i: the key
\* manager's entry when the store was readable and has one, else the
\* citationKey field, else the key after the label in the extra field.
PrecedenceKey(i) ==
    IF ex.bbtOk /\ db[i].bbt # "" THEN db[i].bbt
    ELSE IF db[i].citationKey # "" THEN db[i].citationKey
    ELSE IF db[i].extra # None /\ The(db[i].extra).labelled
            /\ The(db[i].extra).capture \in Keys
         THEN The(db[i].extra).capture
         ELSE ""

\* The rows the last call selected.
SelectedRows ==
    IF ex.op = "full" THEN queryItems(db) ELSE queryItemsSince(db, ex.since)

\* C10: every entry of a full or incremental read carries the key the
\* precedence gives its record, which is not empty, and a selected record is
\* left out exactly when no key resolves for it.
C10_KeyPrecedence ==
    ex.op # "none" =>
        /\ \A n \in 1 .. Len(Extracted) :
              /\ Extracted[n].citationKey # ""
              /\ Extracted[n].citationKey = PrecedenceKey(Extracted[n].itemID)
        /\ \A r \in 1 .. Len(SelectedRows) :
              (PrecedenceKey(SelectedRows[r]) = "")
              <=> (\A n \in 1 .. Len(Extracted) :
                      Extracted[n].itemID # SelectedRows[r])

\* C10 witness: an incremental read returned one entry keyed by the label in
\* its extra field and one keyed by the key manager, which overrides the
\* record's own citationKey field.
C10_Witness ==
    /\ ex.op = "inc"
    /\ ex.bbtOk
    /\ db[1].bbt = "" /\ db[1].citationKey = ""
    /\ db[1].extra = Some([labelled |-> TRUE, capture |-> "b"])
    /\ db[2].bbt = "a" /\ db[2].citationKey = "b"
    /\ Len(Extracted) = 2
    /\ Extracted[1].citationKey = "b"
    /\ Extracted[2].citationKey = "a"


\* -------------------------------------------------------- the cache manager

\* Positions of cache.items count from 1 here (from 0 in the source).

\* buildItemIndex: citationKey -> position; a later entry with the same key
\* overwrites the position of an earlier one.
buildItemIndex(items) ==
    [k \in {items[n].citationKey : n \in 1 .. Len(items)} \ {""} |->
        CHOOSE n \in 1 .. Len(items) :
            /\ items[n].citationKey = k
            /\ \A m \in 1 .. Len(items) : items[m].citationKey = k => m <= n]

\* An upsert loop that appends every incoming item.
RECURSIVE appendItems(_, _, _)
appendItems(cacheItems, itemIndex, items) ==
    IF items = <<>> THEN cacheItems
    ELSE appendItems(Append(cacheItems, Head(items)), itemIndex, Tail(items))

\* The loop of updateCache over the incoming items: an item whose key the
\* index (as it was before the loop) holds replaces the entry at that
\* position, any other item is pushed.
RECURSIVE upsertItems(_, _, _)
upsertItems(cacheItems, itemIndex, items) ==
    IF items = <<>> THEN cacheItems
    ELSE LET item == Head(items)
         IN  upsertItems(
                 IF item.citationKey \in DOMAIN itemIndex
                 THEN [cacheItems EXCEPT ![itemIndex[item.citationKey]] = item]
                 ELSE Append(cacheItems, item),
                 itemIndex, Tail(items))

\* An updateCache that stores the collections on every path.
updateCacheStoring(cache, items, collections, updatedItemKeys, dbFile) ==
    LET dbLastModified == getDbModificationTime(dbFile)
    IN  IF cache = None
        THEN Some([dbLastModified |-> dbLastModified, items |-> items,
                   collections |-> collections,
                   itemIndex |-> buildItemIndex(items)])
        ELSE IF updatedItemKeys # None /\ Len(The(updatedItemKeys)) > 0
        THEN LET merged == upsertItems(The(cache).items, The(cache).itemIndex, items)
             IN  Some([dbLastModified |-> dbLastModified, items |-> merged,
                       collections |-> collections,
                       itemIndex |-> buildItemIndex(merged)])
        ELSE Some([dbLastModified |-> dbLastModified, items |-> items,
                   collections |-> collections,
                   itemIndex |-> buildItemIndex(items)])

\* updateCache(items, collections, updatedItemKeys?) on a manager whose
\* cache is `cache`, with the database file's mtime read at the call.
updateCache(cache, items, collections, updatedItemKeys, dbFile) ==
    LET dbLastModified == getDbModificationTime(dbFile)
    IN  IF cache = None
        THEN Some([dbLastModified |-> dbLastModified, items |-> items,
                   collections |-> collections,
                   itemIndex |-> buildItemIndex(items)])
        ELSE IF updatedItemKeys # None /\ Len(The(updatedItemKeys)) > 0
        THEN LET merged == upsertItems(The(cache).items, The(cache).itemIndex, items)
             IN  Some([dbLastModified |-> dbLastModified, items |-> merged,
                       collections |-> The(cache).collections,
                       itemIndex |-> buildItemIndex(merged)])
        ELSE Some([dbLastModified |-> dbLastModified, items |-> items,
                   collections |-> collections,
                   itemIndex |-> buildItemIndex(items)])

\* A freshness check that does not treat a missing database file apart.
hasDbChangedByTimeOnly(cache, dbFile) ==
    IF cache = None THEN TRUE
    ELSE getDbModificationTime(dbFile) > The(cache).dbLastModified

\* hasDbChanged.
hasDbChanged(cache, dbFile) ==
    LET dbModifiedTime == getDbModificationTime(dbFile)
    IN  IF dbModifiedTime = 0 THEN TRUE
        ELSE IF cache = None THEN TRUE
        ELSE dbModifiedTime > The(cache).dbLastModified

\* date.match(/\d{4}/)?.[0] || "": the first four digits in a row.
matchYear(date) ==
    LET starts == {i \in 1 .. (Len(date) - 3) :
                      \A j \in 0 .. 3 : date[i + j] >= 48 /\ date[i + j] <= 57}
    IN  IF starts = {} THEN <<>>
        ELSE LET first == CHOOSE i \in starts : \A j \in starts : i <= j
             IN  SubSeq(date, first, first + 3)

\* The loop of onOpen that builds the listing reads the entries of
\* data.items and writes the year of each one on the entry itself.
listEntries(items) ==
    [i \in 1 .. Len(items) |-> [items[i] EXCEPT !.year = matchYear(items[i].date)]]

\* parseMetadata fills in fields of the entry it is given: the year, and the
\* item type in its display form.
parseMetadata(selectedEntry) ==
    [selectedEntry EXCEPT
        !.year = IF selectedEntry.date # <<>>
                 THEN matchYear(selectedEntry.date) ELSE @,
        !.itemType = IF @ = "journalArticle" THEN "Journal Article"
                     ELSE IF @ = "report" THEN "Report"
                     ELSE IF @ = "bookSection" THEN "Book Section"
                     ELSE IF @ = "newspaperArticle" THEN "Newspaper Article"
                     ELSE IF @ = "book" THEN "Book"
                     ELSE @]

\* onChooseSuggestion: the first entry of data.items with the chosen
\* citation key is handed to createNote, which has parseMetadata fill it in.
onChooseSuggestion(items, citationKey) ==
    LET found == {i \in 1 .. Len(items) : items[i].citationKey = citationKey}
    IN  IF found = {} THEN items
        ELSE LET index == CHOOSE i \in found : \A j \in found : i <= j
             IN  [items EXCEPT ![index] = parseMetadata(@)]

\* A JSON object is the set of its members <<name, value>>, a JSON array a
\* sequence.
StringifyObject(object) == {<<n, object[n]>> : n \in DOMAIN object}

ParseObject(members) ==
    [n \in {m[1] : m \in members} |->
        (CHOOSE m \in members : m[1] = n)[2]]

\* JSON.stringify(this.cache): the cache document.
JSONstringify(cache) ==
    {<<n, IF n = "items"
          THEN [i \in 1 .. Len(cache.items) |-> StringifyObject(cache.items[i])]
          ELSE IF n = "itemIndex" THEN StringifyObject(cache.itemIndex)
          ELSE cache[n]>> : n \in DOMAIN cache}

\* JSON.parse(data) as ZoteroCache.
JSONparse(data) ==
    LET object == ParseObject(data)
    IN  [n \in DOMAIN object |->
            IF n = "items"
            THEN [i \in 1 .. Len(object.items) |-> ParseObject(object.items[i])]
            ELSE IF n = "itemIndex" THEN ParseObject(object.itemIndex)
            ELSE object[n]]

\* What loadCache returns: null without a file or when reading or parsing
\* it fails, else the parsed cache; a file without an index gets one built.
loadCacheResult(file, readOk) ==
    IF file = None \/ ~readOk THEN None
    ELSE LET parsed == JSONparse(The(file))
         IN  IF "itemIndex" \in DOMAIN parsed THEN Some(parsed)
             ELSE Some([x \in DOMAIN parsed \cup {"itemIndex"} |->
                           IF x = "itemIndex" THEN buildItemIndex(parsed.items)
                           ELSE parsed[x]])

\* A loadCache that installs what it returns, null too.
loadCacheClearing(cache, file, readOk) ==
    loadCacheResult(file, readOk)

\* loadCache: the manager's cache after the call; it is left as it was when
\* the call returns null.
loadCache(cache, file, readOk) ==
    IF loadCacheResult(file, readOk) = None THEN cache
    ELSE loadCacheResult(file, readOk)

\* saveCache, in memory: the index is rebuilt before the cache is written.
saveCacheMemory(cache) ==
    IF cache = None THEN None
    ELSE Some([The(cache) EXCEPT !.itemIndex = buildItemIndex(The(cache).items)])

\* A saveCache whose test of this.cache is inverted: nothing is written.
saveCacheFileInverted(cache, file, writeOk) ==
    IF cache # None \/ ~writeOk THEN file ELSE None

\* saveCache, on disk: the file after the call; a failed write leaves it.
saveCacheFile(cache, file, writeOk) ==
    IF cache = None \/ ~writeOk THEN file
    ELSE Some(JSONstringify(The(saveCacheMemory(cache))))

\* getItemByCitationKey.
getItemByCitationKey(cache, citationKey) ==
    IF cache = None THEN None
    ELSE IF citationKey \in DOMAIN The(cache).itemIndex
            /\ The(cache).itemIndex[citationKey] >= 1
            /\ The(cache).itemIndex[citationKey] <= Len(The(cache).items)
         THEN Some(The(cache).items[The(cache).itemIndex[citationKey]])
         ELSE None


\* -------------------------------------- managers, the singleton, the flows

\* The two handlers that drive the cache: the reference picker's onOpen and
\* the click handler of the settings tab's rebuild button.
Flows == {"modal", "settings"}

\* Manager objects: the singleton's and one more per flow that still holds
\* an older one.
MgrIds == 1 .. (Cardinality(Flows) + 1)

\* new ZoteroCacheManager(app, dbPath).
NewManager(dbPath) == [dbPath |-> dbPath, cache |-> None]

\* What a flow remembers of the snapshot it found when its
\* resynchronization started (kept until its read of the database returns).
NoPrior == [mem |-> None, file |-> None]

\* A handler that is not running; pc names the await a running one is
\* suspended at, update and data are its locals of those names.  shares
\* tells that the entries of data.items are the objects the manager's
\* snapshot holds.
IdleFlow ==
    [pc |-> "idle", mgr |-> 0, update |-> None, data |-> None,
     prior |-> NoPrior, shares |-> FALSE]

\* The entries of a snapshot after a handler wrote on the entries it holds.
WrittenBy(cache, shares, items) ==
    IF cache = None \/ ~shares THEN cache
    ELSE Some([The(cache) EXCEPT !.items = items])

Referenced(s, fl) == ({s} \cup {fl[f].mgr : f \in Flows}) \ {0}

\* The object a `new` returns: one that nothing refers to.
FreshId(s, fl) ==
    CHOOSE id \in MgrIds \ Referenced(s, fl) :
        \A j \in MgrIds \ Referenced(s, fl) : id <= j

\* Managers nothing refers to any more are forgotten.
Collect(m, s, fl) ==
    [id \in MgrIds |-> IF id \in Referenced(s, fl) THEN m[id] ELSE NewManager("P")]

\* The snapshot a caller of getCacheManager finds in memory.
MemSnapshot == IF singleton = 0 THEN None ELSE mgrs[singleton].cache

CacheOf(f) == mgrs[flows[f].mgr].cache

\* cache && cache.dbLastModified > 0.
HasRecordedMtime(cache) ==
    IF cache = None THEN FALSE ELSE The(cache).dbLastModified > 0

\* update && update.items.length > 0.
HasItems(update) ==
    IF update = None THEN FALSE ELSE Len(The(update).items) > 0

Init ==
    /\ settings = ConfiguredSettings
    /\ db = [i \in ItemIds |->
                ItemRow("journalArticle", FALSE, "",
                        IF i = 1 THEN "a" ELSE "b", None, 0, 0)]
    /\ dbMtime = 1
    /\ ex = NoCall
    /\ disk = None
    /\ singleton = 0
    /\ mgrs = [id \in MgrIds |-> NewManager("P")]
    /\ flows = [f \in Flows |-> IdleFlow]
    /\ modal = <<>>

\* Zotero writes the database: an item gets a citation key and a new
\* modification time, and the file a new mtime.
EditItem ==
    /\ dbMtime < MaxTime
    /\ \E i \in ItemIds, k \in Keys :
          /\ db' = [db EXCEPT ![i].citationKey = k, ![i].dateModified = dbMtime + 1]
          /\ dbMtime' = dbMtime + 1
    /\ UNCHANGED <<settings, ex, disk, singleton, mgrs, flows, modal>>

\* Finish(f): the handler returns.
Finish(f) ==
    /\ flows' = [flows EXCEPT ![f] = IdleFlow]
    /\ mgrs' = Collect(mgrs, singleton, [flows EXCEPT ![f] = IdleFlow])

\* onOpen up to its first await: getCacheManager, then loadCache is called.
ModalOpen ==
    /\ flows["modal"].pc = "idle"
    /\ LET fresh == IF singleton = 0 THEN TRUE
                    ELSE mgrs[singleton].dbPath # settings.zoteroDbPath
           id == IF fresh THEN FreshId(singleton, flows) ELSE singleton
       IN  /\ singleton' = id
           /\ mgrs' = IF fresh
                      THEN Collect([mgrs EXCEPT
                                       ![id] = NewManager(settings.zoteroDbPath)],
                                   id, [flows EXCEPT !["modal"].mgr = id])
                      ELSE mgrs
           /\ flows' = [flows EXCEPT !["modal"].pc = "load", !["modal"].mgr = id]
    /\ UNCHANGED <<settings, db, dbMtime, ex, disk, modal>>

\* loadCache completes: the file is read, or is missing, or cannot be read.
ModalLoad ==
    /\ flows["modal"].pc = "load"
    /\ \E readOk \in BOOLEAN :
          mgrs' = [mgrs EXCEPT ![flows["modal"].mgr].cache =
                      loadCache(@, disk, readOk)]
    /\ flows' = [flows EXCEPT !["modal"].pc = "check"]
    /\ UNCHANGED <<settings, db, dbMtime, ex, disk, singleton, modal>>

\* The database has not changed and a cache is loaded: its entries are
\* listed.
ModalUseCache ==
    /\ flows["modal"].pc = "check"
    /\ ~hasDbChanged(CacheOf("modal"), Some(dbMtime))
    /\ CacheOf("modal") # None
    /\ flows' = [flows EXCEPT !["modal"].pc = "listed",
                              !["modal"].shares = TRUE]
    /\ mgrs' = [mgrs EXCEPT ![flows["modal"].mgr].cache =
                    WrittenBy(@, TRUE, listEntries(The(@).items))]
    /\ UNCHANGED <<settings, db, dbMtime, ex, disk, singleton, modal>>

\* A cache with a recorded mtime is loaded: the incremental read.
ModalReadIncremental ==
    /\ flows["modal"].pc = "check"
    /\ hasDbChanged(CacheOf("modal"), Some(dbMtime))
    /\ HasRecordedMtime(CacheOf("modal"))
    /\ flows' = [flows EXCEPT
          !["modal"].pc = "incDone",
          !["modal"].prior = [mem |-> CacheOf("modal"), file |-> disk],
          !["modal"].update = readZoteroDatabaseIncremental(
                                  db, The(CacheOf("modal")).dbLastModified, TRUE)]
    /\ UNCHANGED <<settings, db, dbMtime, ex, disk, singleton, mgrs, modal>>

\* No cache, or one without a recorded mtime: the full read.
ModalReadFull ==
    /\ flows["modal"].pc = "check"
    /\ ~HasRecordedMtime(CacheOf("modal"))
    /\ flows' = [flows EXCEPT
          !["modal"].pc = "fullDone",
          !["modal"].data = Some(readZoteroDatabase(db, TRUE))]
    /\ UNCHANGED <<settings, db, dbMtime, ex, disk, singleton, mgrs, modal>>

\* The incremental read returned items: they are merged into the cache and
\* the cache is saved (the write succeeds or fails).
ModalMergeUpdate ==
    /\ flows["modal"].pc = "incDone"
    /\ HasItems(flows["modal"].update)
    /\ LET update == The(flows["modal"].update)
           updated == updateCache(CacheOf("modal"), update.items,
                                  update.collections,
                                  Some(update.updatedItemKeys), Some(dbMtime))
       IN  /\ mgrs' = [mgrs EXCEPT ![flows["modal"].mgr].cache =
                          saveCacheMemory(updated)]
           /\ \E writeOk \in BOOLEAN :
                 disk' = saveCacheFile(updated, disk, writeOk)
    /\ flows' = [flows EXCEPT !["modal"].pc = "saved",
                              !["modal"].prior = NoPrior,
                              !["modal"].shares = TRUE]
    /\ UNCHANGED <<settings, db, dbMtime, ex, singleton, modal>>

\* The incremental read returned null or no item: the full read.
ModalFallBackToFull ==
    /\ flows["modal"].pc = "incDone"
    /\ ~HasItems(flows["modal"].update)
    /\ flows' = [flows EXCEPT
          !["modal"].pc = "fullDone",
          !["modal"].prior = NoPrior,
          !["modal"].data = Some(readZoteroDatabase(db, TRUE))]
    /\ UNCHANGED <<settings, db, dbMtime, ex, disk, singleton, mgrs, modal>>

\* A read of the database throws (the file or the SQLite runtime is
\* missing, the data is malformed): onOpen reports it and returns.
ModalReadFails ==
    /\ IF flows["modal"].pc = "check"
       THEN hasDbChanged(CacheOf("modal"), Some(dbMtime))
       ELSE flows["modal"].pc = "incDone" /\ ~HasItems(flows["modal"].update)
    /\ Finish("modal")
    /\ UNCHANGED <<settings, db, dbMtime, ex, disk, singleton, modal>>

\* The full read returned: the cache is replaced and saved.
ModalReplace ==
    /\ flows["modal"].pc = "fullDone"
    /\ LET data == The(flows["modal"].data)
           updated == updateCache(CacheOf("modal"), data.items,
                                  data.collections, None, Some(dbMtime))
       IN  /\ mgrs' = [mgrs EXCEPT ![flows["modal"].mgr].cache =
                          saveCacheMemory(updated)]
           /\ \E writeOk \in BOOLEAN :
                 disk' = saveCacheFile(updated, disk, writeOk)
    /\ flows' = [flows EXCEPT !["modal"].pc = "saved",
                              !["modal"].shares = TRUE]
    /\ UNCHANGED <<settings, db, dbMtime, ex, singleton, modal>>

\* saveCache has completed: onOpen goes on to build the list it shows, from
\* the entries of the manager's snapshot after a merge and from the entries
\* it read after a full read.
ModalSaved ==
    /\ flows["modal"].pc = "saved"
    /\ LET shares == IF HasItems(flows["modal"].update) THEN TRUE
                     ELSE flows["modal"].shares
       IN  /\ flows' = [flows EXCEPT !["modal"].pc = "listed",
                                     !["modal"].shares = shares]
           /\ mgrs' = [mgrs EXCEPT ![flows["modal"].mgr].cache =
                           IF @ = None THEN @
                           ELSE WrittenBy(@, shares, listEntries(The(@).items))]
    /\ UNCHANGED <<settings, db, dbMtime, ex, disk, singleton, modal>>

\* The user picks an entry of the listing: onChooseSuggestion makes its
\* note, and the picker closes.
ModalChoose ==
    /\ flows["modal"].pc = "listed"
    /\ CacheOf("modal") # None
    /\ \E n \in 1 .. Len(The(CacheOf("modal")).items) :
          LET items == The(CacheOf("modal")).items
              chosen == onChooseSuggestion(items, items[n].citationKey)
          IN  mgrs' = Collect([mgrs EXCEPT ![flows["modal"].mgr].cache =
                                  WrittenBy(@, flows["modal"].shares, chosen)],
                              singleton, [flows EXCEPT !["modal"] = IdleFlow])
    /\ flows' = [flows EXCEPT !["modal"] = IdleFlow]
    /\ UNCHANGED <<settings, db, dbMtime, ex, disk, singleton, modal>>

\* The user closes the picker without picking an entry.
ModalClose ==
    /\ flows["modal"].pc = "listed"
    /\ Finish("modal")
    /\ UNCHANGED <<settings, db, dbMtime, ex, disk, singleton, modal>>

\* The rebuild button's handler up to the first await of clearCache:
\* clearCacheManager, getCacheManager (a new manager), this.cache = null.
RebuildClick ==
    /\ flows["settings"].pc = "idle"
    /\ LET id == FreshId(0, flows)
       IN  /\ singleton' = id
           /\ flows' = [flows EXCEPT
                 !["settings"].pc = "clear",
                 !["settings"].mgr = id,
                 !["settings"].prior = [mem |-> MemSnapshot, file |-> disk]]
           /\ mgrs' = Collect([mgrs EXCEPT ![id] = NewManager(settings.zoteroDbPath)], id,
                              [flows EXCEPT !["settings"].mgr = id])
    /\ UNCHANGED <<settings, db, dbMtime, ex, disk, modal>>

\* clearCache completes: the cache file is removed (or removing it fails).
RebuildClear ==
    /\ flows["settings"].pc = "clear"
    /\ \E removeOk \in BOOLEAN : disk' = IF removeOk THEN None ELSE disk
    /\ flows' = [flows EXCEPT !["settings"].pc = "read"]
    /\ UNCHANGED <<settings, db, dbMtime, ex, singleton, mgrs, modal>>

\* The handler's full read returns.
RebuildRead ==
    /\ flows["settings"].pc = "read"
    /\ flows' = [flows EXCEPT
          !["settings"].pc = "fullDone",
          !["settings"].prior = NoPrior,
          !["settings"].data = Some(readZoteroDatabase(db, TRUE))]
    /\ UNCHANGED <<settings, db, dbMtime, ex, disk, singleton, mgrs, modal>>

\* The handler's full read throws: the handler reports it and returns.
RebuildReadFails ==
    /\ flows["settings"].pc = "read"
    /\ Finish("settings")
    /\ UNCHANGED <<settings, db, dbMtime, ex, disk, singleton, modal>>

\* The handler updates its manager's cache with the data read and saves it.
RebuildReplace ==
    /\ flows["settings"].pc = "fullDone"
    /\ LET data == The(flows["settings"].data)
           updated == updateCache(CacheOf("settings"), data.items,
                                  data.collections, None, Some(dbMtime))
       IN  /\ mgrs' = [mgrs EXCEPT ![flows["settings"].mgr].cache =
                          saveCacheMemory(updated)]
           /\ \E writeOk \in BOOLEAN :
                 disk' = saveCacheFile(updated, disk, writeOk)
    /\ flows' = [flows EXCEPT
          !["settings"].pc = "saved",
          !["modal"].shares = IF flows["modal"].mgr = flows["settings"].mgr
                              THEN FALSE ELSE @]
    /\ UNCHANGED <<settings, db, dbMtime, ex, singleton, modal>>

\* saveCache has completed: the handler reports the rebuild and returns.
RebuildSaved ==
    /\ flows["settings"].pc = "saved"
    /\ Finish("settings")
    /\ UNCHANGED <<settings, db, dbMtime, ex, disk, singleton, modal>>

\* The steps of the two handlers, interleaved at their awaits; Zotero writes
\* between the runs of the handlers, and the picker is closed without a
\* pick.
Step ==
    \/ (\A f \in Flows : flows[f].pc = "idle") /\ EditItem
    \/ ModalOpen
    \/ ModalLoad
    \/ ModalUseCache
    \/ ModalReadIncremental
    \/ ModalReadFull
    \/ ModalMergeUpdate
    \/ ModalFallBackToFull
    \/ ModalReadFails
    \/ ModalReplace
    \/ ModalSaved
    \/ ModalClose
    \/ RebuildClick
    \/ RebuildClear
    \/ RebuildRead
    \/ RebuildReadFails
    \/ RebuildReplace
    \/ RebuildSaved

\* The handlers run one after the other: one starts only when the other has
\* returned.
Next ==
    \/ EditItem
    \/ flows["settings"].pc = "idle" /\ ModalOpen
    \/ ModalLoad
    \/ ModalUseCache
    \/ ModalReadIncremental
    \/ ModalReadFull
    \/ ModalMergeUpdate
    \/ ModalFallBackToFull
    \/ ModalReadFails
    \/ ModalReplace
    \/ ModalSaved
    \/ ModalChoose
    \/ ModalClose
    \/ flows["modal"].pc = "idle" /\ RebuildClick
    \/ RebuildClear
    \/ RebuildRead
    \/ RebuildReadFails
    \/ RebuildReplace
    \/ RebuildSaved

Spec == Init /\ [][Next]_vars

\* The library at the other path: its items carry their own item keys, and
\* citation keys that the first library uses too.
OtherLibrary ==
    [i \in ItemIds |->
        [ItemRow("journalArticle", FALSE, "", IF i = 1 THEN "a" ELSE "c", None, 0, 0)
            EXCEPT !.itemKey = "Q"]]

\* The user types another database path in the settings while no handler
\* runs: from now on the handlers read the library at that path.
SwitchSource ==
    /\ \A f \in Flows : flows[f].pc = "idle"
    /\ settings.zoteroDbPath = "P"
    /\ settings' = [settings EXCEPT !.zoteroDbPath = "Q"]
    /\ db' = OtherLibrary
    /\ dbMtime' \in 1..MaxTime
    /\ UNCHANGED <<ex, disk, singleton, mgrs, flows, modal>>

\* The picker is opened and closed before and after the path is switched.
SwitchNext ==
    \/ SwitchSource
    \/ EditItem
    \/ ModalOpen
    \/ ModalLoad
    \/ ModalUseCache
    \/ ModalReadIncremental
    \/ ModalReadFull
    \/ ModalMergeUpdate
    \/ ModalFallBackToFull
    \/ ModalReadFails
    \/ ModalReplace
    \/ ModalSaved
    \/ ModalClose

SpecSwitch == Init /\ [][SwitchNext]_vars

\* The handlers as the event loop runs them: each is suspended at its
\* awaits, and the other may start or resume there.
SpecConc == Init /\ [][Step]_vars

\* The index of a cache matches its entry list.
IndexMatches(cache) ==
    /\ \A i \in 1 .. Len(cache.items) :
          cache.items[i].citationKey # "" =>
              /\ cache.items[i].citationKey \in DOMAIN cache.itemIndex
              /\ cache.itemIndex[cache.items[i].citationKey] = i
    /\ \A k \in DOMAIN cache.itemIndex :
          /\ cache.itemIndex[k] \in 1 .. Len(cache.items)
          /\ cache.items[cache.itemIndex[k]].citationKey = k

\* C1: the index of every manager's cache, and of the cache file, matches
\* the entry list: every entry with a key is found at its own position under
\* its key, and every key of the index leads to an entry with that key.
C1_IndexMatchesEntries ==
    /\ \A id \in MgrIds :
          mgrs[id].cache # None => IndexMatches(The(mgrs[id].cache))
    /\ disk # None => IndexMatches(JSONparse(The(disk)))

\* The last position of `items` holding an entry with key k.
LastWithKey(items, k) ==
    CHOOSE n \in 1 .. Len(items) :
        /\ items[n].citationKey = k
        /\ \A m \in 1 .. Len(items) : items[m].citationKey = k => m <= n

PriorOf(f) ==
    IF flows[f].pc = "check"
    THEN [mem |-> CacheOf(f), file |-> disk]
    ELSE flows[f].prior

\* C3: when the read of a full resynchronization fails, the snapshot in
\* memory and the cache file are what they were before the
\* resynchronization started, in the reference picker and in the rebuild of
\* the settings tab.
C3_ResyncAtomic ==
    [][/\ ModalReadFails =>
              /\ MemSnapshot' = PriorOf("modal").mem
              /\ disk' = PriorOf("modal").file
       /\ RebuildReadFails =>
              /\ MemSnapshot' = PriorOf("settings").mem
              /\ disk' = PriorOf("settings").file
    ]_vars

\* C7: while a flow is suspended at an await, no step of another flow
\* changes the snapshot of the manager it works on, nor the cache file.
C7_OneAtATime ==
    [][\A f \in Flows :
          (flows[f].pc \notin {"idle", "listed"} /\ flows'[f] = flows[f]) =>
              /\ disk' = disk
              /\ mgrs'[flows[f].mgr].cache = mgrs[flows[f].mgr].cache
    ]_vars

\* ------------------------------------------- the reference picker's search

\* Searched texts are sequences of character codes.
\* The listing holds at most MaxCorpus references.
MaxCorpus == 2

\* Typed queries have at most MaxQueryLen characters.
MaxQueryLen == 3

\* The most results a scoring pass returns.
MAX_RESULTS == 50

isWhitespace(code) == code = SPACE

\* String.prototype.toLowerCase.
toLowerCase(text) ==
    [i \in 1 .. Len(text) |->
        IF text[i] >= 65 /\ text[i] <= 90 THEN text[i] + 32 ELSE text[i]]

RECURSIVE trimStart(_)
trimStart(text) ==
    IF text = <<>> THEN <<>>
    ELSE IF isWhitespace(Head(text)) THEN trimStart(Tail(text))
    ELSE text

RECURSIVE trimEnd(_)
trimEnd(text) ==
    IF text = <<>> THEN <<>>
    ELSE IF isWhitespace(text[Len(text)])
         THEN trimEnd(SubSeq(text, 1, Len(text) - 1))
         ELSE text

\* String.prototype.trim on a text.
trimText(text) == trimEnd(trimStart(text))

\* text.split(/\s+/).filter(kw => kw.length > 0): the words of a text, `word`
\* being the word under construction.
RECURSIVE splitWords(_, _)
splitWords(text, word) ==
    IF text = <<>> THEN (IF word = <<>> THEN <<>> ELSE <<word>>)
    ELSE IF isWhitespace(Head(text))
         THEN (IF word = <<>> THEN <<>> ELSE <<word>>)
                  \o splitWords(Tail(text), <<>>)
         ELSE splitWords(Tail(text), Append(word, Head(text)))

\* String.prototype.startsWith.
startsWith(text, prefix) ==
    IF Len(prefix) > Len(text) THEN FALSE
    ELSE SubSeq(text, 1, Len(prefix)) = prefix

\* The positions (from 0) at which keyword occurs in text.
Occurrences(text, keyword) ==
    {i \in 0 .. (Len(text) - Len(keyword)) :
        SubSeq(text, i + 1, i + Len(keyword)) = keyword}

\* String.prototype.indexOf: the first position from 0, or -1.
indexOf(text, keyword) ==
    IF Occurrences(text, keyword) = {} THEN -1
    ELSE CHOOSE i \in Occurrences(text, keyword) :
             \A j \in Occurrences(text, keyword) : i <= j

\* a-z, A-Z, 0-9 and _.
isWordChar(code) ==
    \/ (code >= 65 /\ code <= 90)
    \/ (code >= 97 /\ code <= 122)
    \/ (code >= 48 /\ code <= 57)
    \/ code = 95

\* text.charCodeAt(index), index from 0.
charCodeAt(text, index) == text[index + 1]

\* A boundary check that never finds a boundary.
isWordBoundaryMatchNever(text, index, length) ==
    FALSE

isWordBoundaryMatch(text, index, length) ==
    LET before == IF index = 0 THEN TRUE
                  ELSE ~isWordChar(charCodeAt(text, index - 1))
        after == IF index + length >= Len(text) THEN TRUE
                 ELSE ~isWordChar(charCodeAt(text, index + length))
    IN  before /\ after

\* The text of a citation key.
KeyChars(citationKey) ==
    IF citationKey = "a" THEN <<97>>
    ELSE IF citationKey = "b" THEN <<98>>
    ELSE IF citationKey = "c" THEN <<99>>
    ELSE <<>>

\* tags.join(" ").
RECURSIVE joinTags(_)
joinTags(tags) ==
    IF tags = <<>> THEN <<>>
    ELSE IF Len(tags) = 1 THEN tags[1]
    ELSE tags[1] \o <<SPACE>> \o joinTags(Tail(tags))

\* The entry of the search index of one reference of the listing.
SearchableItem(item) ==
    LET authorOriginal == IF item.authorKeyFullName # <<>>
                          THEN item.authorKeyFullName
                          ELSE item.authorKey
        tagsOriginal == IF item.zoteroTags = None THEN <<>>
                        ELSE joinTags(The(item.zoteroTags))
    IN  [item |-> item,
         titleLower |-> toLowerCase(item.title),
         authorLower |-> toLowerCase(authorOriginal),
         journalLower |-> toLowerCase(item.publicationTitle),
         citeKeyLower |-> toLowerCase(KeyChars(item.citationKey)),
         abstractLower |-> toLowerCase(item.abstractNote),
         tagsLower |-> toLowerCase(tagsOriginal)]

\* The score one field gives a keyword: its weight, times 1.5 at a word
\* boundary, times 2 at the start of a field that rewards it; 0 when the
\* keyword does not occur.
fieldScoreFlat(text, keyword, weight, rewardsStart) ==
    IF indexOf(text, keyword) = -1 THEN 0 ELSE weight

fieldScore(text, keyword, weight, rewardsStart) ==
    LET idx == indexOf(text, keyword)
        s == IF isWordBoundaryMatch(text, idx, Len(keyword))
             THEN (weight * 3) \div 2
             ELSE weight
    IN  IF idx = -1 THEN 0
        ELSE IF rewardsStart /\ idx = 0 THEN s * 2
        ELSE s

\* keywordScore of scoreItem for one keyword; it is positive exactly when
\* the keyword matched some field.
keywordScore(si, keyword) ==
    fieldScore(si.titleLower, keyword, 100, TRUE)
    + fieldScore(si.authorLower, keyword, 80, TRUE)
    + fieldScore(si.journalLower, keyword, 60, FALSE)
    + fieldScore(si.citeKeyLower, keyword, 50, FALSE)
    + (IF Len(si.tagsLower) > 0
       THEN fieldScore(si.tagsLower, keyword, 40, FALSE) ELSE 0)
    + (IF Len(si.abstractLower) > 0
       THEN fieldScore(si.abstractLower, keyword, 30, FALSE) ELSE 0)

RECURSIVE sumScores(_, _)
sumScores(si, keywords) ==
    IF keywords = <<>> THEN 0
    ELSE keywordScore(si, Head(keywords)) + sumScores(si, Tail(keywords))

\* scoreItem, in halves of a point: the scores of the matched keywords,
\* times 1.5 when several keywords were given and all of them matched.
scoreItem(si, keywords) ==
    LET totalScore == sumScores(si, keywords)
        matchedKeywords ==
            Cardinality({n \in 1 .. Len(keywords) :
                            keywordScore(si, keywords[n]) > 0})
    IN  IF matchedKeywords = 0 THEN 0
        ELSE IF matchedKeywords = Len(keywords) /\ Len(keywords) > 1
        THEN totalScore * 3
        ELSE totalScore * 2

\* Array.prototype.sort with (a, b) => b.score - a.score: stable, by
\* descending score.
RECURSIVE insertByScore(_, _)
insertByScore(sorted, x) ==
    IF sorted = <<>> THEN <<x>>
    ELSE IF Head(sorted).score >= x.score
         THEN <<Head(sorted)>> \o insertByScore(Tail(sorted), x)
         ELSE <<x>> \o sorted

RECURSIVE sortByScore(_)
sortByScore(scoredItems) ==
    IF scoredItems = <<>> THEN <<>>
    ELSE insertByScore(
             sortByScore(SubSeq(scoredItems, 1, Len(scoredItems) - 1)),
             scoredItems[Len(scoredItems)])

\* A slice that cuts nothing off.
sliceNone(items, n) ==
    items

\* Array.prototype.slice(0, n).
slice(items, n) ==
    IF Len(items) <= n THEN items ELSE SubSeq(items, 1, n)

\* An empty query that lists nothing.
unscoredNone(selectArray) ==
    <<>>

\* The whole listing with score 0: the result of an empty query.
unscored(selectArray) ==
    [i \in 1 .. Len(selectArray) |-> [reference |-> selectArray[i], score |-> 0]]

\* performSearch rescopes the scoring to the matches of the previous pass.
rescopes(m, query) ==
    LET lowerQuery == trimText(toLowerCase(query))
        prevQuery == trimText(toLowerCase(m.lastSearchQuery))
    IN  IF prevQuery = <<>> \/ m.lastSearchSet = None THEN FALSE
        ELSE /\ startsWith(lowerQuery, prevQuery)
             /\ Len(The(m.lastSearchSet)) < Len(m.searchIndex)

\* performSearch on the picker m: the ranked results and the matched set it
\* leaves in lastSearchSet.
performSearch(m, query) ==
    LET lowerQuery == trimText(toLowerCase(query))
        keywords == splitWords(lowerQuery, <<>>)
        searchSet == IF rescopes(m, query) THEN The(m.lastSearchSet)
                     ELSE m.searchIndex
        matchedItems ==
            SelectSeq(searchSet, LAMBDA si : scoreItem(si, keywords) > 0)
        scoredItems ==
            [i \in 1 .. Len(matchedItems) |->
                [reference |-> matchedItems[i].item,
                 score |-> scoreItem(matchedItems[i], keywords)]]
    IN  IF keywords = <<>>
        THEN [results |-> unscored(m.selectArray), lastSearchSet |-> None]
        ELSE [results |-> slice(sortByScore(scoredItems), MAX_RESULTS),
              lastSearchSet |-> Some(matchedItems)]

\* buildSearchIndex on the picker m: the index of its listing, and the
\* search state reset.
buildSearchIndex(m) ==
    [m EXCEPT !.searchIndex =
                  [i \in 1 .. Len(m.selectArray) |-> SearchableItem(m.selectArray[i])],
              !.searchCache = <<>>,
              !.lastSearchQuery = <<>>,
              !.lastSearchSet = None]

\* cancelPendingSearch: the pending timer, if any, is cleared.
cancelPendingSearch(m) ==
    IF m.searchDebounceTimer # None
    THEN [m EXCEPT !.searchDebounceTimer = None]
    ELSE m

\* getSuggestions(query) on the picker m.  The timer holds the query its
\* callback captured.
getSuggestions(m, query) ==
    LET m1 == [m EXCEPT !.currentQuery = query]
    IN  IF trimText(query) = <<>>
        THEN [cancelPendingSearch(m1) EXCEPT
                  !.lastSearchQuery = <<>>,
                  !.lastSearchSet = None,
                  !.searchCache = unscored(m.selectArray)]
        ELSE IF query = m.lastSearchQuery THEN m1
        ELSE [cancelPendingSearch(m1) EXCEPT !.searchDebounceTimer = Some(query)]

\* The callback of the debounce timer, up to the input event it dispatches.
timerCallback(m) ==
    LET capturedQuery == The(m.searchDebounceTimer)
        pass == performSearch(m, capturedQuery)
    IN  [m EXCEPT !.searchDebounceTimer = None,
                  !.searchCache = pass.results,
                  !.lastSearchSet = pass.lastSearchSet,
                  !.lastSearchQuery = capturedQuery]

\* onClose of the picker.
onClose(m) ==
    [cancelPendingSearch(m) EXCEPT !.open = FALSE,
                                   !.searchIndex = <<>>,
                                   !.searchCache = <<>>,
                                   !.lastSearchSet = None]

\* A reference of the listing, as onOpen builds it (it sets no zoteroTags;
\* date is the year of the entry, or empty).
ListedReference(citationKey, title, date, authorKey, authorKeyFullName, publicationTitle, abstractNote) ==
    [citationKey |-> citationKey, title |-> title, date |-> date,
     authorKey |-> authorKey, authorKeyFullName |-> authorKeyFullName,
     publicationTitle |-> publicationTitle, abstractNote |-> abstractNote,
     zoteroTags |-> None]

\* The reference titled "A" with citation key "c", of the year `date`.
TitledA(date) == ListedReference("c", <<65>>, date, <<>>, <<>>, <<>>, <<>>)

\* The references a listing is drawn from: titled "A", undated and of 2020;
\* titled "b"; titled "c" by "Ab" in "b a" with abstract "ab"; untitled
\* with short author "b".
Library ==
    {TitledA(<<>>),
     TitledA(matchYear(ItemDate)),
     ListedReference("b", <<98>>, <<>>, <<>>, <<>>, <<>>, <<>>),
     ListedReference("c", <<99>>, <<>>, <<65>>, <<65, 98>>, <<98, SPACE, 97>>, <<97, 98>>),
     ListedReference("a", <<>>, <<>>, <<98>>, <<>>, <<>>, <<>>)}

\* A listing of one reference more than a search returns at most.
LongListing ==
    [i \in 1 .. (MAX_RESULTS + 1) |->
        IF i % 2 = 1 THEN TitledA(<<>>) ELSE TitledA(matchYear(ItemDate))]

\* The listings: in the order onOpen leaves them in (by modification date,
\* which the search does not read).
Corpora ==
    UNION {[1 .. n -> Library] : n \in 1 .. MaxCorpus} \cup {LongListing}

\* The characters a user types: "A", "b" and the blank.
TypedChars == {65, 98, SPACE}

\* The texts of the input one keystroke away: a character typed at the end,
\* or the last character deleted.
Edits(text) ==
    {Append(text, c) : c \in {d \in TypedChars : Len(text) < MaxQueryLen}}
        \cup (IF text = <<>> THEN {} ELSE {SubSeq(text, 1, Len(text) - 1)})

\* The picker when onOpen has built the listing and its index and has
\* requested the animation frame that refreshes the suggestions.
OpenedModal(selectArray) ==
    buildSearchIndex([open |-> TRUE,
                      framePending |-> TRUE,
                      selectArray |-> selectArray,
                      searchIndex |-> <<>>,
                      searchCache |-> <<>>,
                      lastSearchQuery |-> <<>>,
                      lastSearchSet |-> None,
                      searchDebounceTimer |-> None,
                      currentQuery |-> <<>>])

SearchInit ==
    /\ settings = ConfiguredSettings
    /\ modal \in {OpenedModal(c) : c \in Corpora}
    /\ db = <<>>
    /\ dbMtime = 0
    /\ ex = NoCall
    /\ disk = None
    /\ singleton = 0
    /\ mgrs = <<>>
    /\ flows = <<>>

\* The user edits the input: the input event calls getSuggestions with the
\* new text.
Keystroke ==
    /\ modal.open
    /\ \E query \in Edits(modal.currentQuery) :
          modal' = getSuggestions(modal, query)
    /\ UNCHANGED <<settings, db, dbMtime, ex, disk, singleton, mgrs, flows>>

\* The animation frame onOpen requested: an input event with the text of the
\* input.
FrameRefresh ==
    /\ modal.open
    /\ modal.framePending
    /\ modal' = getSuggestions([modal EXCEPT !.framePending = FALSE],
                               modal.currentQuery)
    /\ UNCHANGED <<settings, db, dbMtime, ex, disk, singleton, mgrs, flows>>

\* The debounce timer fires: its callback runs the scoring pass and
\* dispatches an input event, which calls getSuggestions with the text of
\* the input.
TimerFire ==
    /\ modal.searchDebounceTimer # None
    /\ modal' = getSuggestions(timerCallback(modal), modal.currentQuery)
    /\ UNCHANGED <<settings, db, dbMtime, ex, disk, singleton, mgrs, flows>>

\* The user closes the picker.
CloseModal ==
    /\ modal.open
    /\ modal' = onClose(modal)
    /\ UNCHANGED <<settings, db, dbMtime, ex, disk, singleton, mgrs, flows>>

SearchNext == Keystroke \/ FrameRefresh \/ TimerFire \/ CloseModal

SpecSearch == SearchInit /\ [][SearchNext]_vars

\* The ranked result of scoring a query over the whole listing.
fullSearch(m, query) ==
    performSearch([m EXCEPT !.lastSearchSet = None], query).results

\* C4: a scoring pass that rescopes to the matches of the previous pass
\* leaves the ranked result that scoring its query over the whole listing
\* gives.
C4_NarrowedEqualsFull ==
    [][IF modal.searchDebounceTimer = None THEN TRUE
       ELSE (TimerFire /\ rescopes(modal, The(modal.searchDebounceTimer))) =>
                modal'.searchCache =
                    fullSearch(modal, The(modal.searchDebounceTimer))
    ]_vars

\* C5: when nothing is pending any more (no timer, no animation frame) at
\* a query that is not blank, so that only a further keystroke can change
\* the picker, the result set is the scoring of that query over the whole
\* listing.
C5_EventuallyConsistent ==
    (/\ modal.open
     /\ ~modal.framePending
     /\ modal.searchDebounceTimer = None
     /\ trimText(modal.currentQuery) # <<>>)
        => modal.searchCache = fullSearch(modal, modal.currentQuery)

\* C6: the scoring pass that fires scores the query of the most recent
\* keystroke.
C6_FiredPassIsLatest ==
    [][IF modal.searchDebounceTimer = None THEN TRUE
       ELSE TimerFire =>
                The(modal.searchDebounceTimer) = modal.currentQuery
    ]_vars

\* ------------------------------------- the cache manager's calls, on their own

\* Entry lists a read can return: some of the items, in id order, each with
\* a citation key.
RECURSIVE DrawnItemsUpTo(_)
DrawnItemsUpTo(n) ==
    IF n = 0 THEN {<<>>}
    ELSE DrawnItemsUpTo(n - 1)
         \cup {Append(items, Reference(n, k, ItemRow("journalArticle", FALSE, "",
                                                         k, None, 0, 0))) :
                  items \in DrawnItemsUpTo(n - 1), k \in {"a", "b"}}

\* The snapshots a manager can hold: none, or what updateCache built from a
\* read when the database file had some mtime.
DrawnCaches ==
    {None} \cup {updateCache(None, items, 0, None, Some(t)) :
                    items \in DrawnItemsUpTo(MaxItems), t \in Times \ {0}}

\* The cache files: none, what saveCache wrote, or a document of the same
\* content without the index.
DrawnFiles ==
    {None}
    \cup {Some(JSONstringify(The(c))) : c \in DrawnCaches \ {None}}
    \cup {Some({m \in JSONstringify(The(c)) : m[1] # "itemIndex"}) :
             c \in DrawnCaches \ {None}}

\* The database files: missing, or present with an mtime.
DrawnDbFiles == {None} \cup {Some(t) : t \in Times \ {0}}

NoCacheCall == [op |-> "none"]

CacheInit ==
    /\ settings = ConfiguredSettings
    /\ mgrs \in {<<[NewManager("P") EXCEPT !.cache = c]>> : c \in DrawnCaches}
    /\ disk \in DrawnFiles
    /\ ex = NoCacheCall
    /\ db = <<>>
    /\ dbMtime = 0
    /\ singleton = 1
    /\ flows = <<>>
    /\ modal = <<>>

\* A call of hasDbChanged.
CallHasDbChanged ==
    /\ \E dbFile \in DrawnDbFiles :
          ex' = [op |-> "hasDbChanged", dbFile |-> dbFile,
                 result |-> hasDbChanged(mgrs[1].cache, dbFile)]
    /\ UNCHANGED <<settings, db, dbMtime, disk, singleton, mgrs, flows, modal>>

\* A call of saveCache; the write succeeds or throws.
CallSaveCache ==
    /\ \E writeOk \in BOOLEAN :
          /\ disk' = saveCacheFile(mgrs[1].cache, disk, writeOk)
          /\ ex' = [op |-> "saveCache", ok |-> writeOk]
    /\ mgrs' = [mgrs EXCEPT ![1].cache = saveCacheMemory(@)]
    /\ UNCHANGED <<settings, db, dbMtime, singleton, flows, modal>>

\* A call of loadCache, by the manager or by a new one in its place; reading
\* the file succeeds or throws.
CallLoadCache ==
    /\ \E readOk \in BOOLEAN, fresh \in BOOLEAN :
          LET before == IF fresh THEN None ELSE mgrs[1].cache
          IN  /\ mgrs' = [mgrs EXCEPT ![1].cache = loadCache(before, disk, readOk)]
              /\ ex' = [op |-> "loadCache", ok |-> readOk, before |-> before,
                        afterSave |-> (IF ex.op = "saveCache" THEN ex.ok ELSE FALSE),
                        result |-> loadCacheResult(disk, readOk)]
    /\ UNCHANGED <<settings, db, dbMtime, disk, singleton, flows, modal>>

CacheNext == CallHasDbChanged \/ CallSaveCache \/ CallLoadCache

SpecCache == CacheInit /\ [][CacheNext]_vars

\* C11 as stated: hasDbChanged returns true exactly when no snapshot is in
\* memory or the modification time of the source (0 for a missing file, as
\* getDbModificationTime reports it) exceeds the recorded one.
C11_ChangedIffNewer ==
    ex.op = "hasDbChanged" =>
        (ex.result <=>
            IF mgrs[1].cache = None THEN TRUE
            ELSE getDbModificationTime(ex.dbFile) > The(mgrs[1].cache).dbLastModified)

\* C11, amended: hasDbChanged returns true exactly when the database file
\* does not exist, or no snapshot is in memory, or the file's modification
\* time exceeds the recorded one.
C11_ChangedIffMissingOrNewer ==
    ex.op = "hasDbChanged" =>
        (ex.result <=>
            IF ex.dbFile = None THEN TRUE
            ELSE IF mgrs[1].cache = None THEN TRUE
            ELSE The(ex.dbFile) > The(mgrs[1].cache).dbLastModified)

\* C11 witness: the check answered true for a missing database file with a
\* snapshot in memory.
C11_Witness ==
    /\ ex.op = "hasDbChanged"
    /\ ex.dbFile = None
    /\ mgrs[1].cache # None
    /\ ex.result

\* C12: a loadCache that follows a successful saveCache of a snapshot, by
\* the same manager or by a new one, returns (and holds) an entry list and
\* an index equal to those in memory at the save.
C12_SaveLoadRoundTrip ==
    [][(/\ ex.op = "saveCache" /\ ex'.op = "loadCache"
        /\ (IF ex.op = "saveCache" THEN ex.ok ELSE FALSE)
        /\ (IF ex'.op = "loadCache" THEN ex'.ok ELSE FALSE)
        /\ mgrs[1].cache # None)
       => /\ ex'.result # None
          /\ The(ex'.result).items = The(mgrs[1].cache).items
          /\ The(ex'.result).itemIndex = The(mgrs[1].cache).itemIndex
          /\ mgrs'[1].cache = ex'.result
    ]_vars

\* C12 witness: a new manager has loaded, after a successful save, a
\* snapshot of two entries with an index of two keys.
C12_Witness ==
    /\ ex.op = "loadCache"
    /\ ex.afterSave /\ ex.ok /\ ex.before = None
    /\ ex.result # None
    /\ Len(The(ex.result).items) = 2
    /\ DOMAIN The(ex.result).itemIndex = {"a", "b"}
    /\ JSONparse(The(disk)).items = The(ex.result).items

\* C13: a cache manager made for a source path holds only a snapshot taken
\* from the library at that path: after the configured path is switched from
\* P to Q, what loadCache gives the manager for Q -- the entries and the
\* recorded mtime the freshness check compares with -- never comes from P.
C13_SnapshotOfOwnSource ==
    \A id \in MgrIds :
        mgrs[id].cache # None =>
            \A n \in 1..Len(The(mgrs[id].cache).items) :
                The(mgrs[id].cache).items[n].itemKey = mgrs[id].dbPath

\* C14: the steps of the picker that build the listing (the end of onOpen)
\* and that make the note of a picked entry (onChooseSuggestion, createNote,
\* parseMetadata) leave the snapshot of the picker's manager, every field of
\* every entry of it, as it was.
C14_ListingAndNoteLeaveEntries ==
    [][(/\ flows["modal"].pc \in {"check", "saved", "listed"}
        /\ flows'["modal"].pc \in {"listed", "idle"})
       => mgrs'[flows["modal"].mgr].cache = mgrs[flows["modal"].mgr].cache]_vars

\* C15: a loadCache whose read of the file throws returns null and leaves
\* the snapshot in memory as it was before the call, and a saveCache whose
\* write throws leaves the snapshot in memory (and the file) as it was.
C15_FailuresLeaveSnapshot ==
    [][/\ (ex'.op = "loadCache" /\ ~ex'.ok) =>
              /\ ex'.result = None
              /\ mgrs'[1].cache = ex'.before
       /\ (ex'.op = "saveCache" /\ ~ex'.ok) =>
              /\ mgrs'[1].cache = mgrs[1].cache
              /\ disk' = disk
    ]_vars

\* C15 witness: reading an existing cache file failed while a snapshot was
\* in memory, and the snapshot is still there.
C15_Witness ==
    /\ ex.op = "loadCache"
    /\ ~ex.ok
    /\ disk # None
    /\ ex.before # None
    /\ ex.result = None
    /\ mgrs[1].cache = ex.before

\* The empty and the whitespace-only queries up to the longest typed one.
BlankQueries == {[i \in 1 .. n |-> SPACE] : n \in 0 .. MaxQueryLen}

\* results lists the N references of the listing, in the listing's order,
\* each with score 0.
IsWholeListing(results, selectArray) ==
    /\ Len(results) = Len(selectArray)
    /\ \A i \in 1 .. Len(selectArray) :
          /\ results[i].reference = selectArray[i]
          /\ results[i].score = 0

\* C16: whenever getSuggestions has been called with an empty or
\* whitespace-only query, the suggestions are the N references of the
\* listing, all with score 0, in the listing's order; and performSearch
\* returns the same for every such query.
C16_BlankQueryListsAll ==
    [][modal'.open =>
          /\ trimText(modal'.currentQuery) = <<>> =>
                 IsWholeListing(modal'.searchCache, modal'.selectArray)
          /\ \A query \in BlankQueries :
                 IsWholeListing(performSearch(modal', query).results,
                                modal'.selectArray)
    ]_vars

\* C16 witness: the input holds two blanks, and all the references of a
\* listing of the largest size are suggested with score 0.
C16_Witness ==
    /\ modal.open
    /\ ~modal.framePending
    /\ modal.currentQuery = <<SPACE, SPACE>>
    /\ Len(modal.selectArray) = MaxCorpus
    /\ IsWholeListing(modal.searchCache, modal.selectArray)

\* results is in descending order of score.
IsDescending(results) ==
    \A i \in 1 .. (Len(results) - 1) : results[i].score >= results[i + 1].score

\* The elements of x occur in y in the order they have in x.
RECURSIVE IsSubsequence(_, _)
IsSubsequence(x, y) ==
    IF x = <<>> THEN TRUE
    ELSE IF y = <<>> THEN FALSE
    ELSE IF Head(x) = Head(y) THEN IsSubsequence(Tail(x), Tail(y))
    ELSE IsSubsequence(x, Tail(y))

\* The results of equal score are in the order of the listing.
TiesInListingOrder(results, selectArray) ==
    \A s \in {results[i].score : i \in 1 .. Len(results)} :
        LET tied == SelectSeq(results, LAMBDA r : r.score = s)
        IN  IsSubsequence([i \in 1 .. Len(tied) |-> tied[i].reference], selectArray)

FieldTexts == {<<>>, <<97>>, <<97, 98>>, <<98, SPACE, 97>>, <<98, 97>>}

\* Tag lists of the scored references: unset, "a", and "b" with "a".
TagLists == {None, Some(<< <<97>> >>), Some(<< <<98>>, <<97>> >>)}

\* The references scored one by one: every field drawn on its own.
ScoredReferences ==
    {[ListedReference(citationKey, title, <<>>, <<>>, author, venue, abstract)
         EXCEPT !.zoteroTags = tags] :
        citationKey \in {"a", "c"}, title \in FieldTexts, author \in FieldTexts,
        venue \in {<<>>, <<98, SPACE, 97>>, <<98, 97>>},
        abstract \in {<<>>, <<97>>, <<98, 97>>}, tags \in TagLists}

\* The references ranked against each other: by "a" in 2020, by "a" and
\* undated, and one titled "b".
RankedLibrary ==
    {ListedReference("c", <<>>, matchYear(ItemDate), <<97>>, <<>>, <<>>, <<>>),
     ListedReference("c", <<>>, <<>>, <<97>>, <<>>, <<>>, <<>>),
     ListedReference("c", <<98>>, <<>>, <<>>, <<>>, <<>>, <<>>)}

\* The reference onOpen lists for an entry of the snapshot, given the author
\* strings made of its creators: the entry's tags are not copied.
listReference(selectedEntry, authorKey, authorKeyFullName) ==
    ListedReference(selectedEntry.citationKey, selectedEntry.title,
                    matchYear(selectedEntry.date), authorKey, authorKeyFullName,
                    selectedEntry.publicationTitle, selectedEntry.abstractNote)

\* An entry of the snapshot titled "b" whose only "a" is its tag.
TaggedEntry ==
    [citationKey |-> "c", title |-> <<98>>, date |-> ItemDate,
     publicationTitle |-> <<>>, abstractNote |-> <<>>,
     tags |-> << <<97>> >>, zoteroTags |-> <<>>]

ScoredCorpora ==
    {<<r>> : r \in ScoredReferences}
        \cup UNION {[1 .. n -> RankedLibrary] : n \in 1 .. 3}
        \cup {<<listReference(TaggedEntry, <<>>, <<>>)>>}

\* Keyword lists handed to scoreItem: "a"; "b"; "ab"; "a", "b"; "a", "a";
\* "b", "c".
KeywordLists ==
    {<< <<97>> >>, << <<98>> >>, << <<97, 98>> >>, << <<97>>, <<98>> >>,
     << <<97>>, <<97>> >>, << <<98>>, <<99>> >>}

\* Queries pasted into the input: "a", "a b", "A  2020", "2020".
PastedQueries ==
    {<<97>>, <<97, SPACE, 98>>, <<65, SPACE, SPACE>> \o matchYear(ItemDate),
     matchYear(ItemDate)}

\* The texts a field is changed to: the field texts and "ab a".
PairTexts == FieldTexts \cup {<<97, 98, SPACE, 97>>}

\* The fields of a reference the index reads as text.
TextFields == {"title", "authorKeyFullName", "publicationTitle", "abstractNote"}

ScoreInit ==
    /\ settings = ConfiguredSettings
    /\ modal \in {OpenedModal(c) : c \in ScoredCorpora}
    /\ ex = NoCall
    /\ db = <<>>
    /\ dbMtime = 0
    /\ disk = None
    /\ singleton = 0
    /\ mgrs = <<>>
    /\ flows = <<>>

\* Each behaviour makes one call on the drawn listing.
\* scoreItem is applied to an entry of the index and a keyword list.
CallScoreItem ==
    /\ ex = NoCall
    /\ \E n \in 1 .. Len(modal.searchIndex), keywords \in KeywordLists :
          ex' = [op |-> "scoreItem", si |-> modal.searchIndex[n],
                 keywords |-> keywords,
                 score |-> scoreItem(modal.searchIndex[n], keywords)]
    /\ UNCHANGED <<settings, db, dbMtime, disk, singleton, mgrs, flows, modal>>

\* scoreItem is applied, for one keyword, to the index entries of a
\* reference and of the reference that differs from it in one text field.
CallScorePair ==
    /\ ex = NoCall
    /\ \E n \in 1 .. Len(modal.selectArray), field \in TextFields,
          text \in PairTexts, keyword \in {<<97>>, <<98>>} :
          LET item == modal.selectArray[n]
              other == [item EXCEPT ![field] = text]
          IN  ex' = [op |-> "scorePair", field |-> field, keyword |-> keyword,
                     text1 |-> item[field], text2 |-> text,
                     score1 |-> scoreItem(SearchableItem(item), <<keyword>>),
                     score2 |-> scoreItem(SearchableItem(other), <<keyword>>)]
    /\ UNCHANGED <<settings, db, dbMtime, disk, singleton, mgrs, flows, modal>>

\* performSearch is applied to the listing and a pasted query.
CallPerformSearch ==
    /\ ex = NoCall
    /\ \E query \in PastedQueries :
          ex' = [op |-> "performSearch", query |-> query,
                 results |-> performSearch(modal, query).results]
    /\ UNCHANGED <<settings, db, dbMtime, disk, singleton, mgrs, flows, modal>>

ScoreNext == CallScoreItem \/ CallScorePair \/ CallPerformSearch

SpecScore == ScoreInit /\ [][ScoreNext]_vars

\* The weights scoreItem gives the fields of the index.
FieldWeight ==
    [titleLower |-> 100, authorLower |-> 80, journalLower |-> 60,
     citeKeyLower |-> 50, tagsLower |-> 40, abstractLower |-> 30]

\* The match of a keyword in a text: its first occurrence.
MatchAt(text, keyword) ==
    CHOOSE i \in Occurrences(text, keyword) :
        \A j \in Occurrences(text, keyword) : i <= j

\* The occurrence at offset i is not part of a longer token.
AtTokenBoundary(text, keyword, i) ==
    /\ i > 0 => ~isWordChar(text[i])
    /\ i + Len(keyword) < Len(text) => ~isWordChar(text[i + Len(keyword) + 1])

\* What a field adds to the score of a keyword, in halves of a point.
FieldPart(si, field, keyword) ==
    IF Occurrences(si[field], keyword) = {} THEN 0
    ELSE LET i == MatchAt(si[field], keyword)
         IN  FieldWeight[field]
                 * (IF AtTokenBoundary(si[field], keyword, i) THEN 3 ELSE 2)
                 * (IF i = 0 /\ field \in {"titleLower", "authorLower"}
                    THEN 2 ELSE 1)

KeywordPart(si, keyword) ==
    FieldPart(si, "titleLower", keyword) + FieldPart(si, "authorLower", keyword)
    + FieldPart(si, "journalLower", keyword) + FieldPart(si, "citeKeyLower", keyword)
    + FieldPart(si, "tagsLower", keyword) + FieldPart(si, "abstractLower", keyword)

RECURSIVE KeywordsPart(_, _)
KeywordsPart(si, keywords) ==
    IF keywords = <<>> THEN 0
    ELSE KeywordPart(si, Head(keywords)) + KeywordsPart(si, Tail(keywords))

\* C18: the score of an entry is the sum, over the keywords and the fields
\* that contain the keyword, of the field's weight (title > author > venue >
\* citation key > tag > abstract), times 1.5 when the match is at a token
\* boundary, times 2 more when it starts the title or the author; the
\* total is multiplied by 1.5 exactly when several keywords were given and
\* all of them matched; and a search with a keyword lists no entry that
\* matches none of its keywords.
C18_ScoreFormula ==
    /\ FieldWeight.titleLower > FieldWeight.authorLower
    /\ FieldWeight.authorLower > FieldWeight.journalLower
    /\ FieldWeight.journalLower > FieldWeight.citeKeyLower
    /\ FieldWeight.citeKeyLower > FieldWeight.tagsLower
    /\ FieldWeight.tagsLower > FieldWeight.abstractLower
    /\ ex.op = "scoreItem" =>
          LET allMatched == \A n \in 1 .. Len(ex.keywords) :
                                KeywordPart(ex.si, ex.keywords[n]) > 0
          IN  2 * ex.score =
                  KeywordsPart(ex.si, ex.keywords)
                      * (IF Len(ex.keywords) > 1 /\ allMatched THEN 3 ELSE 2)
    /\ (ex.op = "performSearch" /\ trimText(ex.query) # <<>>) =>
          LET keywords == splitWords(trimText(toLowerCase(ex.query)), <<>>)
          IN  /\ \A i \in 1 .. Len(ex.results) : ex.results[i].score > 0
              /\ \A n \in 1 .. Len(modal.selectArray) :
                    (\A k \in 1 .. Len(keywords) :
                        KeywordPart(modal.searchIndex[n], keywords[k]) = 0)
                    => \A i \in 1 .. Len(ex.results) :
                          ex.results[i].reference # modal.selectArray[n]

\* C18 witness: two keywords were scored and both matched an entry, "b" at
\* the start of its title and "a" later in it, at token boundaries, and in
\* its tags.
C18_Witness ==
    /\ ex.op = "scoreItem"
    /\ ex.keywords = << <<97>>, <<98>> >>
    /\ ex.si.titleLower = <<98, SPACE, 97>>
    /\ ex.si.tagsLower = <<98, SPACE, 97>>
    /\ ex.si.authorLower = <<>>
    /\ ex.si.journalLower = <<>>
    /\ ex.si.abstractLower = <<>>
    /\ ex.si.citeKeyLower = <<99>>
    /\ ex.score = 3 * (100 * 3 + (100 * 3) \div 2 + 2 * ((40 * 3) \div 2))

\* Some occurrence of the keyword in the text is at a token boundary.
HasBoundaryMatch(text, keyword) ==
    \E i \in Occurrences(text, keyword) : AtTokenBoundary(text, keyword, i)

\* The keyword occurs in the text, and only inside longer tokens.
HasOnlyEmbeddedMatches(text, keyword) ==
    /\ Occurrences(text, keyword) # {}
    /\ ~HasBoundaryMatch(text, keyword)

\* C19 as stated: of two entries that differ in one field, the one whose
\* field holds the keyword at a token boundary scores higher for the
\* keyword than the one whose field holds it only inside longer tokens.
C19_BoundaryOutscoresEmbedded ==
    (/\ ex.op = "scorePair"
     /\ HasBoundaryMatch(toLowerCase(ex.text2), ex.keyword)
     /\ HasOnlyEmbeddedMatches(toLowerCase(ex.text1), ex.keyword))
    => ex.score2 > ex.score1

\* C19, amended: the entry whose field has the first occurrence of the
\* keyword at a token boundary scores higher than the one whose field has
\* it inside a longer token, unless the field is the title or the author,
\* the embedded occurrence starts the field and the other one does not.
C19_BoundaryOutscoresEmbeddedElsewhere ==
    (/\ ex.op = "scorePair"
     /\ Occurrences(toLowerCase(ex.text2), ex.keyword) # {}
     /\ Occurrences(toLowerCase(ex.text1), ex.keyword) # {}
     /\ AtTokenBoundary(toLowerCase(ex.text2), ex.keyword,
                        MatchAt(toLowerCase(ex.text2), ex.keyword))
     /\ ~AtTokenBoundary(toLowerCase(ex.text1), ex.keyword,
                         MatchAt(toLowerCase(ex.text1), ex.keyword))
     /\ ~(/\ ex.field \in {"title", "authorKeyFullName"}
          /\ MatchAt(toLowerCase(ex.text1), ex.keyword) = 0
          /\ MatchAt(toLowerCase(ex.text2), ex.keyword) # 0))
    => ex.score2 > ex.score1

\* C19 witness: the venue "b a" holds "a" at a token boundary, the venue
\* "ba" holds it inside a token, and the first entry scores higher.
C19_Witness ==
    /\ ex.op = "scorePair"
    /\ ex.field = "publicationTitle"
    /\ ex.keyword = <<97>>
    /\ ex.text1 = <<98, 97>>
    /\ ex.text2 = <<98, SPACE, 97>>
    /\ ex.score2 > ex.score1

\* The positions of the results that list the reference.
PositionsOf(results, reference) ==
    {i \in 1 .. Len(results) : results[i].reference = reference}

\* C20: when one entry of the listing has k1 ("a") in its author and k2
\* ("2020") in its date and other entries match k1 only, the query "k1 k2"
\* lists that entry, above every entry that matches k1 only, and lists no
\* entry that matches neither.
C20_BothKeywordsRankFirst ==
    LET both == ListedReference("c", <<>>, matchYear(ItemDate), <<97>>, <<>>, <<>>, <<>>)
        onlyFirst == ListedReference("c", <<>>, <<>>, <<97>>, <<>>, <<>>, <<>>)
        neither == ListedReference("c", <<98>>, <<>>, <<>>, <<>>, <<>>, <<>>)
    IN  (/\ ex.op = "performSearch"
         /\ ex.query = <<65, SPACE, SPACE>> \o matchYear(ItemDate)
         /\ Cardinality(PositionsOf(unscored(modal.selectArray), both)) = 1)
        => /\ PositionsOf(ex.results, both) # {}
           /\ \A i \in PositionsOf(ex.results, both),
                 j \in PositionsOf(ex.results, onlyFirst) : i < j
           /\ PositionsOf(ex.results, neither) = {}

\* C21: an entry of the snapshot whose only occurrence of the keyword is in
\* its tags is returned, with a positive score, by the search of the
\* listing built from the snapshot.
C21_TagOnlyMatchIsListed ==
    (/\ ex.op = "performSearch"
     /\ ex.query = <<97>>
     /\ \E n \in 1 .. Len(TaggedEntry.tags) :
           Occurrences(toLowerCase(TaggedEntry.tags[n]), ex.query) # {}
     /\ modal.selectArray = <<listReference(TaggedEntry, <<>>, <<>>)>>)
    => /\ Len(ex.results) = 1
       /\ ex.results[1].score > 0

\* ------------------------------------------------------- the note merge

\* The line break.
NEWLINE == 10

\* Lines of fewer characters are probed whole.
HALVES_FROM == 30

\* Lines of fewer characters are probed by halves, longer ones by quarters.
QUARTERS_FROM == 150

\* String.prototype.split("\n"): the lines of a text, `line` being the line
\* under construction.
RECURSIVE splitLines(_, _)
splitLines(text, line) ==
    IF text = <<>> THEN <<line>>
    ELSE IF Head(text) = NEWLINE
         THEN <<line>> \o splitLines(Tail(text), <<>>)
         ELSE splitLines(Tail(text), Append(line, Head(text)))

\* line.replace(/^prefix/, "").
dropPrefix(line, prefix) ==
    IF startsWith(line, prefix)
    THEN SubSeq(line, Len(prefix) + 1, Len(line)) ELSE line

\* line.replace(/suffix$/, "").
dropSuffix(line, suffix) ==
    IF Len(suffix) <= Len(line)
       /\ SubSeq(line, Len(line) - Len(suffix) + 1, Len(line)) = suffix
    THEN SubSeq(line, 1, Len(line) - Len(suffix)) ELSE line

\* line.replace(/^\**/, "").
RECURSIVE dropLeadingStars(_)
dropLeadingStars(line) ==
    IF line # <<>> /\ Head(line) = 42 THEN dropLeadingStars(Tail(line)) ELSE line

\* line.replace(/\**$/, "").
RECURSIVE dropTrailingStars(_)
dropTrailingStars(line) ==
    IF line # <<>> /\ line[Len(line)] = 42
    THEN dropTrailingStars(SubSeq(line, 1, Len(line) - 1)) ELSE line

\* \d+ matches the whole text.
isDigits(text) ==
    /\ text # <<>>
    /\ \A i \in 1 .. Len(text) : text[i] >= 48 /\ text[i] <= 57

\* The text matches "\(" + authorKey + ", \d+, p. \d+\)".
isZoteroCitation(text, authorKey) ==
    LET head == <<40>> \o authorKey \o <<44, SPACE>>
    IN  /\ startsWith(text, head)
        /\ text[Len(text)] = 41
        /\ \E n \in 1 .. Len(text), m \in 1 .. Len(text) :
              /\ Len(head) + n + 5 + m + 1 = Len(text)
              /\ isDigits(SubSeq(text, Len(head) + 1, Len(head) + n))
              /\ SubSeq(text, Len(head) + n + 1, Len(head) + n + 3)
                    = <<44, SPACE, 112>>
              /\ text[Len(head) + n + 4] # NEWLINE
              /\ text[Len(head) + n + 5] = SPACE
              /\ isDigits(SubSeq(text, Len(head) + n + 6, Len(head) + n + 5 + m))

\* The text matches "\(" + authorKey + " \d+:\d+\)".
isZotfileCitation(text, authorKey) ==
    LET head == <<40>> \o authorKey \o <<SPACE>>
    IN  /\ startsWith(text, head)
        /\ text[Len(text)] = 41
        /\ \E n \in 1 .. Len(text), m \in 1 .. Len(text) :
              /\ Len(head) + n + 1 + m + 1 = Len(text)
              /\ isDigits(SubSeq(text, Len(head) + 1, Len(head) + n))
              /\ text[Len(head) + n + 1] = 58
              /\ isDigits(SubSeq(text, Len(head) + n + 2, Len(head) + n + 1 + m))

\* line.replace(pattern + "$", "") for one of the two citation patterns.
dropCitation(line, authorKey, zotero) ==
    LET starts == {i \in 1 .. Len(line) :
                      IF zotero
                      THEN isZoteroCitation(SubSeq(line, i, Len(line)), authorKey)
                      ELSE isZotfileCitation(SubSeq(line, i, Len(line)), authorKey)}
    IN  IF starts = {} THEN line
        ELSE SubSeq(line, 1, (CHOOSE i \in starts : \A j \in starts : i <= j) - 1)

\* The line of the new note as it is searched for: trimmed, without the
\* decoration at its start and end and without the citation at its end.
selectedNewLine(line, authorKey) ==
    LET l1 == dropPrefix(trimText(line), <<45, SPACE>>)
        l2 == dropPrefix(l1, <<62, SPACE>>)
        l3 == dropPrefix(l2, <<61>>)
        l4 == dropPrefix(dropLeadingStars(l3), <<42>>)
        l5 == dropPrefix(l4, <<34>>)
        l6 == dropCitation(l5, authorKey, TRUE)
        l7 == dropCitation(l6, authorKey, FALSE)
        l8 == dropSuffix(l7, <<61>>)
        l9 == dropSuffix(dropTrailingStars(l8), <<42>>)
    IN  dropSuffix(l9, <<34>>)

\* String.prototype.substring(from, to), positions from 0.
substring(text, from, to) ==
    LET a == IF from < 0 THEN 0 ELSE IF from > Len(text) THEN Len(text) ELSE from
        b == IF to < 0 THEN 0 ELSE IF to > Len(text) THEN Len(text) ELSE to
    IN  IF a <= b THEN SubSeq(text, a + 1, b) ELSE SubSeq(text, b + 1, a)

\* The largest element of a non-empty set of integers.
Max(S) == CHOOSE x \in S : \A y \in S : y <= x

\* positionArray: -1 and where the probes of the line occur in the old note.
positionArray(existingNote, line) ==
    LET n == Len(line)
    IN  {-1} \cup
        (IF n > 1 /\ n < HALVES_FROM
         THEN {indexOf(existingNote, line)}
         ELSE IF n >= HALVES_FROM /\ n < QUARTERS_FROM
         THEN {indexOf(existingNote, substring(line, 0, n \div 2)),
               indexOf(existingNote, substring(line, n \div 2 + 1, n))}
         ELSE IF n >= QUARTERS_FROM
         THEN {indexOf(existingNote, substring(line, 0, n \div 4)),
               indexOf(existingNote, substring(line, n \div 4 + 1, n \div 2)),
               indexOf(existingNote, substring(line, n \div 2 + 1, (3 * n) \div 4)),
               indexOf(existingNote, substring(line, (3 * n) \div 4 + 1, n))}
         ELSE {})

\* positionNewLine: where the line breaks of the old note are.
positionNewLine(existingNote) ==
    {i \in 0 .. (Len(existingNote) - 1) : existingNote[i + 1] = NEWLINE}

\* positionNewLine.filter(pos => pos > from)[0] ?? 0.
insertPositionAfter(existingNote, from) ==
    LET later == {pos \in positionNewLine(existingNote) : pos > from}
    IN  IF later = {} THEN 0
        ELSE CHOOSE pos \in later : \A q \in later : pos <= q

\* The loop over the lines of the new note: st holds positionOldNote and the
\* insertions scheduled so far.
RECURSIVE scheduleLines(_, _, _, _)
scheduleLines(existingNote, newNoteArray, authorKey, st) ==
    IF newNoteArray = <<>> THEN st
    ELSE LET line == selectedNewLine(Head(newNoteArray), authorKey)
             found == Max(positionArray(existingNote, line))
             next ==
                 IF line = <<>> THEN st
                 ELSE IF found > -1
                 THEN [st EXCEPT !.positionOldNote = @ \cup {found}]
                 ELSE [st EXCEPT
                          !.newNoteInsertText = Append(@, Head(newNoteArray)),
                          !.newNoteInsertPosition =
                              Append(@, insertPositionAfter(
                                            existingNote, Max(st.positionOldNote)))]
         IN  scheduleLines(existingNote, Tail(newNoteArray), authorKey, next)

\* The insertions compareOldNewNote schedules for the two notes.
scheduled(existingNote, newNote, authorKey) ==
    scheduleLines(existingNote, splitLines(newNote, <<>>), authorKey,
                  [positionOldNote |-> {0}, newNoteInsertText |-> <<>>,
                   newNoteInsertPosition |-> <<>>])

\* The loop that adds the scheduled lines to the old note, the last one
\* first.
RECURSIVE addLines(_, _, _, _)
addLines(existingNote, texts, positions, doubleSpaceAdd) ==
    IF texts = <<>> THEN existingNote
    ELSE LET n == Len(texts)
             inserted == substring(existingNote, 0, positions[n])
                             \o doubleSpaceAdd \o <<NEWLINE>> \o texts[n]
                             \o substring(existingNote, positions[n],
                                          Len(existingNote))
         IN  addLines(inserted, SubSeq(texts, 1, n - 1),
                      SubSeq(positions, 1, n - 1), doubleSpaceAdd)

\* The old note with the lines of the new note it lacks.
reconciled(existingNote, newNote, authorKey, isDoubleSpaced) ==
    LET st == scheduled(existingNote, newNote, authorKey)
    IN  addLines(existingNote, st.newNoteInsertText, st.newNoteInsertPosition,
                 IF isDoubleSpaced THEN <<NEWLINE>> ELSE <<>>)

\* The section always starts at the start of the text.
startSaveInZero(text, startSave) == 0

\* Where the preserved section starts in a text.
startSaveIn(text, startSave) ==
    LET found == IF startSave # <<>> THEN indexOf(text, startSave) ELSE 0
    IN  IF found < 0 THEN 0 ELSE found

\* Where the preserved section ends in a text.
endSaveIn(text, endSave) ==
    LET found == IF endSave # <<>>
                 THEN indexOf(text, endSave) + Len(endSave)
                 ELSE Len(text)
    IN  IF found < 0 THEN Len(text) ELSE found

\* The "Select Section" branch: the new note around the section of the old
\* note.
newNoteCombined(existingNote, newNote, startSave, endSave) ==
    substring(newNote, 0, startSaveIn(newNote, startSave))
        \o substring(existingNote, startSaveIn(existingNote, startSave),
                     endSaveIn(existingNote, endSave))
        \o substring(newNote, endSaveIn(newNote, endSave), Len(newNote))

\* compareOldNewNote under the settings st.
compareOldNewNote(existingNote, newNote, authorKey, st) ==
    LET existing == reconciled(existingNote, newNote, authorKey, st.isDoubleSpaced)
    IN  IF st.saveManualEdits = "Save Entire Note" THEN existing
        ELSE IF st.saveManualEdits = "Select Section"
        THEN newNoteCombined(existing, newNote, st.saveManualEditsStart,
                             st.saveManualEditsEnd)
        ELSE existing

\* How many lines the old note of a merge has at most.
MaxOldLines == 2

\* How many lines the new note of a merge has at most.
MaxNewLines == 3

\* The lines the notes are made of: "b", "aa", "bb", "ab".
NoteLines == {<<98>>, <<97, 97>>, <<98, 98>>, <<97, 98>>}

\* The lines joined by line breaks.
RECURSIVE joinLines(_)
joinLines(lines) ==
    IF Len(lines) = 1 THEN lines[1]
    ELSE lines[1] \o <<NEWLINE>> \o joinLines(Tail(lines))

\* The notes of at most n lines.
NoteTexts(n) ==
    {joinLines(lines) : lines \in UNION {[1 .. k -> NoteLines] : k \in 1 .. n}}

\* The markers of the section to keep: none, one the notes can hold, one
\* they never hold.
StartMarkers == {<<>>, <<97, 97>>, <<122, 122>>}
EndMarkers == {<<>>, <<98, 98>>, <<122, 122>>}

\* The settings the merge reads.
MergeSettings ==
    [isDoubleSpaced : BOOLEAN, saveManualEdits : {"Save Entire Note"},
     saveManualEditsStart : {<<>>}, saveManualEditsEnd : {<<>>}]
    \cup [isDoubleSpaced : BOOLEAN, saveManualEdits : {"Select Section"},
          saveManualEditsStart : StartMarkers, saveManualEditsEnd : EndMarkers]

\* The citation key of the entry whose note is written.
AuthorKey == <<66>>

MergeInit ==
    /\ settings \in MergeSettings
    /\ ex = NoCall
    /\ modal = 0
    /\ db = <<>>
    /\ dbMtime = 0
    /\ disk = None
    /\ singleton = 0
    /\ mgrs = <<>>
    /\ flows = <<>>

\* The note of an entry is generated while a note file exists: the file is
\* merged with the generated text and written back.
CallCompareOldNewNote ==
    /\ ex = NoCall
    /\ \E existingNote \in {<<>>} \cup NoteTexts(MaxOldLines),
          newNote \in NoteTexts(MaxNewLines) :
          ex' = [op |-> "compareOldNewNote", existingNote |-> existingNote,
                 newNote |-> newNote, again |-> None,
                 result |-> compareOldNewNote(existingNote, newNote,
                                              AuthorKey, settings)]
    /\ UNCHANGED <<settings, db, dbMtime, disk, singleton, mgrs, flows, modal>>

\* The note is generated once more from the unchanged entry: the file the
\* first run wrote is merged with the same generated text.
CallCompareAgain ==
    /\ ex.op = "compareOldNewNote"
    /\ ex.again = None
    /\ ex' = [ex EXCEPT !.again = Some(compareOldNewNote(ex.result, ex.newNote,
                                                        AuthorKey, settings))]
    /\ UNCHANGED <<settings, db, dbMtime, disk, singleton, mgrs, flows, modal>>

MergeNext == CallCompareOldNewNote \/ CallCompareAgain

SpecMerge == MergeInit /\ [][MergeNext]_vars

\* A merge under "Save Entire Note" has been made.
SavedEntireNote ==
    /\ ex.op = "compareOldNewNote"
    /\ settings.saveManualEdits = "Save Entire Note"

\* The insertions the recorded merge scheduled.
ScheduledOfCall == scheduled(ex.existingNote, ex.newNote, AuthorKey)

\* C22: under "Save Entire Note" the merge destroys nothing: every character
\* of the old note is in the result, in its order, and every line of the new
\* note that was not found in the old note is in the result.
C22_SaveEntireNoteKeepsText ==
    SavedEntireNote =>
        /\ IsSubsequence(ex.existingNote, ex.result)
        /\ \A i \in 1 .. Len(ScheduledOfCall.newNoteInsertText) :
              indexOf(ex.result, ScheduledOfCall.newNoteInsertText[i]) >= 0

\* A merge under "Select Section" has been made.
SavedSection ==
    /\ ex.op = "compareOldNewNote"
    /\ settings.saveManualEdits = "Select Section"

\* The old note of the recorded merge with the lines it lacked.
ReconciledOfCall ==
    reconciled(ex.existingNote, ex.newNote, AuthorKey, settings.isDoubleSpaced)

\* Where a section starts: at the first occurrence of the marker, or at the
\* start of the text when the marker is empty or is not in the text.
SectionStart(text, marker) ==
    IF marker = <<>> \/ Occurrences(text, marker) = {} THEN 0
    ELSE MatchAt(text, marker)

\* Where a section ends: after the first occurrence of the marker, or at the
\* end of the text when the marker is empty or is not in the text.
SectionEnd(text, marker) ==
    IF marker = <<>> \/ Occurrences(text, marker) = {} THEN Len(text)
    ELSE MatchAt(text, marker) + Len(marker)

\* C23: under "Select Section" the result is the new note up to its section
\* start, the section of the reconciled old note, and the new note from its
\* section end, a marker that is empty or missing standing for the start
\* (start marker) or the end (end marker) of the text.
C23_MissingMarkerFallsBack ==
    SavedSection =>
        LET startSave == settings.saveManualEditsStart
            endSave == settings.saveManualEditsEnd
        IN  ex.result =
                SubSeq(ex.newNote, 1, SectionStart(ex.newNote, startSave))
                \o SubSeq(ReconciledOfCall,
                          SectionStart(ReconciledOfCall, startSave) + 1,
                          SectionEnd(ReconciledOfCall, endSave))
                \o SubSeq(ex.newNote, SectionEnd(ex.newNote, endSave) + 1,
                          Len(ex.newNote))

\* A merge under "Select Section" with a start marker that is in both notes
\* and no end marker has been made.
SavedFromMarker ==
    /\ SavedSection
    /\ settings.saveManualEditsStart # <<>>
    /\ settings.saveManualEditsEnd = <<>>
    /\ Occurrences(ex.existingNote, settings.saveManualEditsStart) # {}
    /\ Occurrences(ex.newNote, settings.saveManualEditsStart) # {}

\* The text from the first occurrence of the marker to the end.
FromMarker(text, marker) == SubSeq(text, MatchAt(text, marker) + 1, Len(text))

\* The text before the first occurrence of the marker.
BeforeMarker(text, marker) == SubSeq(text, 1, MatchAt(text, marker))

\* C24 as stated: with a start marker that is in both notes and no end
\* marker, the result is the new note before its marker followed by the old
\* note, as it was passed to the merge, from its marker to its end.
C24_TailIsOldNote ==
    SavedFromMarker =>
        ex.result = BeforeMarker(ex.newNote, settings.saveManualEditsStart)
                    \o FromMarker(ex.existingNote, settings.saveManualEditsStart)

\* C24: with a start marker that is in both notes and no end marker, the
\* result is the new note before its marker followed by the reconciled old
\* note (the old note with the lines it lacked) from its marker to its end.
C24_TailIsReconciledNote ==
    SavedFromMarker =>
        ex.result = BeforeMarker(ex.newNote, settings.saveManualEditsStart)
                    \o FromMarker(ReconciledOfCall, settings.saveManualEditsStart)

\* Such a merge has added a line to the old note after its marker.
C24_Witness ==
    /\ SavedFromMarker
    /\ ScheduledOfCall.newNoteInsertText # <<>>
    /\ FromMarker(ReconciledOfCall, settings.saveManualEditsStart)
           # FromMarker(ex.existingNote, settings.saveManualEditsStart)

\* A merge has been made, under either policy.
Merged == ex.op = "compareOldNewNote"

\* The offset of the first line break of the text after offset from, the end
\* of the text when no line break follows.
LineBreakAfter(text, from) ==
    LET later == {pos \in positionNewLine(text) : pos > from}
    IN  IF later = {} THEN Len(text)
        ELSE CHOOSE pos \in later : \A q \in later : pos <= q

\* The offsets at which the lines of the new note that are not found are to
\* be put: at the line break that follows the anchor of the latest line found
\* before them, at the start of the old note when no line was found before
\* them. last is that anchor, if any.
RECURSIVE OffsetsAfterAnchors(_, _, _)
OffsetsAfterAnchors(existingNote, newNoteArray, last) ==
    IF newNoteArray = <<>> THEN <<>>
    ELSE LET line == selectedNewLine(Head(newNoteArray), AuthorKey)
             found == Max(positionArray(existingNote, line))
             rest == Tail(newNoteArray)
         IN  IF line = <<>> THEN OffsetsAfterAnchors(existingNote, rest, last)
             ELSE IF found > -1
             THEN OffsetsAfterAnchors(existingNote, rest, Some(found))
             ELSE <<IF last = None THEN 0
                    ELSE LineBreakAfter(existingNote, The(last))>>
                  \o OffsetsAfterAnchors(existingNote, rest, last)

\* C26: each line of the new note that is not found is scheduled at the line
\* break that follows the anchor of the latest line found before it, and at
\* the start of the old note when no line was found before it.
C26_ScheduledAfterLatestAnchor ==
    Merged =>
        ScheduledOfCall.newNoteInsertPosition
            = OffsetsAfterAnchors(ex.existingNote, splitLines(ex.newNote, <<>>), None)

\* What precedes an inserted line under the settings.
LineLead == IF settings.isDoubleSpaced THEN <<NEWLINE, NEWLINE>> ELSE <<NEWLINE>>

\* The scheduled lines whose offset is at, one after the other in the order
\* of the new note, each behind its lead.
RECURSIVE LinesAt(_, _, _)
LinesAt(texts, positions, at) ==
    IF texts = <<>> THEN <<>>
    ELSE (IF Head(positions) = at THEN LineLead \o Head(texts) ELSE <<>>)
         \o LinesAt(Tail(texts), Tail(positions), at)

\* The text from offset at on, with every scheduled line put at its offset of
\* the text.
RECURSIVE InsertedAtOffsets(_, _, _, _)
InsertedAtOffsets(text, texts, positions, at) ==
    LinesAt(texts, positions, at)
    \o (IF at >= Len(text) THEN <<>>
        ELSE <<text[at + 1]>> \o InsertedAtOffsets(text, texts, positions, at + 1))

\* C27: the scheduled offsets never decrease along the lines of the new note,
\* and the reconciled note is the old note with every scheduled line at its
\* offset of the old note, lines of one offset in the order of the new note.
C27_OffsetsStayValid ==
    Merged =>
        LET st == ScheduledOfCall
        IN  /\ \A i, j \in 1 .. Len(st.newNoteInsertPosition) :
                  i < j => st.newNoteInsertPosition[i] <= st.newNoteInsertPosition[j]
            /\ ReconciledOfCall
                   = InsertedAtOffsets(ex.existingNote, st.newNoteInsertText,
                                       st.newNoteInsertPosition, 0)

\* C29: under "Save Entire Note", merging the same new note into the result
\* of the merge gives that result again.
C29_MergeTwiceIsMergeOnce ==
    (SavedEntireNote /\ ex.again # None) => The(ex.again) = ex.result

\* ------------------------------------------------- the library update

\* The clock of the library update ranges up to MaxClock.
MaxClock == 5

\* How many times the library is updated at most.
MaxRuns == 2

\* When the items of the library were last modified before the first update.
FirstEdit == 2

\* new Date(text) for the text of a dateModified column, which holds a UTC
\* time without a zone: the text is read as a local time of the host, which
\* is zone ahead of UTC.
newDate(text, zone) == text[1] * DayLen + text[3] - zone

\* By how much the clock of the host is ahead of UTC.
Zones == {0, 1}

\* The settings the library update reads; lastUpdateDate is long ago.
UpdateSettings ==
    [zoteroDbPath : {"P"}, lastUpdateDate : {0},
     updateLibrary : {"Only update existing notes", "Create new notes when missing"}]

\* The update is idle, the clock is at the last modification, and each entry
\* has no note (-1) or a note made of an earlier state of the entry.
UpdateInit ==
    /\ settings \in UpdateSettings
    /\ db = [i \in ItemIds |->
                ItemRow("journalArticle", FALSE, "",
                        IF i = 1 THEN "a" ELSE "b", None, FirstEdit, FirstEdit)]
    /\ dbMtime = FirstEdit
    /\ ex \in [op : {"updateLibrary"}, pc : {"idle"}, zone : Zones,
               now : {FirstEdit}, data : {<<>>}, index : {0}, lastUpdate : {0},
               readAt : {0}, runs : {0}, notes : [ItemIds -> {-1, 1}]]
    /\ disk = None
    /\ singleton = 0
    /\ mgrs = <<>>
    /\ flows = <<>>
    /\ modal = <<>>

\* Zotero modifies an entry while the clock advances.
ZoteroEdit ==
    /\ ex.now < MaxClock
    /\ \E i \in ItemIds :
          db' = [db EXCEPT ![i].dateModified = ex.now + 1]
    /\ dbMtime' = ex.now + 1
    /\ ex' = [ex EXCEPT !.now = @ + 1]
    /\ UNCHANGED <<settings, disk, singleton, mgrs, flows, modal>>

\* onOpen up to the loop: the database is read and lastUpdateDate is taken
\* from the settings.
UpdateOpen ==
    /\ ex.pc = "idle"
    /\ ex.runs < MaxRuns
    /\ settings.zoteroDbPath # ""
    /\ ex' = [ex EXCEPT !.pc = "loop",
                        !.data = readZoteroDatabase(db, TRUE).items,
                        !.index = 1,
                        !.lastUpdate = settings.lastUpdateDate,
                        !.readAt = ex.now]
    /\ UNCHANGED <<settings, db, dbMtime, disk, singleton, mgrs, flows, modal>>

\* One round of the loop: the entry is skipped when it was modified before
\* the last update, or when only existing notes are updated and it has none;
\* otherwise its note is created from the entry as it was read.
UpdateEntry ==
    /\ ex.pc = "loop"
    /\ ex.index <= Len(ex.data)
    /\ LET selectedEntry == ex.data[ex.index]
           datemodified == newDate(SqlDateTime(selectedEntry.dateModified), ex.zone)
           skipped ==
               IF datemodified < ex.lastUpdate THEN TRUE
               ELSE /\ settings.updateLibrary = "Only update existing notes"
                    /\ ex.notes[selectedEntry.itemID] = -1
       IN  ex' = [ex EXCEPT
                     !.index = @ + 1,
                     !.notes = IF skipped THEN @
                               ELSE [@ EXCEPT ![selectedEntry.itemID] =
                                                  selectedEntry.dateModified]]
    /\ UNCHANGED <<settings, db, dbMtime, disk, singleton, mgrs, flows, modal>>

\* onOpen after the loop: lastUpdateDate becomes the present time.
UpdateFinish ==
    /\ ex.pc = "loop"
    /\ ex.index > Len(ex.data)
    /\ ex.now < MaxClock
    /\ settings' = [settings EXCEPT !.lastUpdateDate = ex.now + 1]
    /\ ex' = [ex EXCEPT !.pc = "idle", !.now = @ + 1, !.runs = @ + 1]
    /\ UNCHANGED <<db, dbMtime, disk, singleton, mgrs, flows, modal>>

UpdateNext == ZoteroEdit \/ UpdateOpen \/ UpdateEntry \/ UpdateFinish

SpecUpdate == UpdateInit /\ [][UpdateNext]_vars

\* The note of entry i is due: the entry has a note, or notes are created
\* when missing.
NoteDue(i) ==
    \/ settings.updateLibrary = "Create new notes when missing"
    \/ ex.notes[i] # -1

\* C25: once a run of the update has ended, every entry whose note is due
\* has a note made of its present state, unless it was modified after the
\* database was read by that run: the run that follows one run skips no
\* entry that was modified after the read of that run.
C25_NoModifiedEntrySkipped ==
    (ex.pc = "idle" /\ ex.runs >= 1) =>
        \A i \in ItemIds :
            NoteDue(i) =>
                \/ ex.notes[i] >= db[i].dateModified
                \/ db[i].dateModified > ex.readAt

\* ------------------------------------------ the recorded mtime, collections

\* What the entries tell of the changes of the library: which keys there are
\* and when each was modified.
ChangesIn(items) ==
    [n \in 1 .. Len(items) |->
        <<items[n].itemID, items[n].citationKey, items[n].dateModified>>]

\* C28: whenever hasDbChanged answers false for a manager that holds a
\* snapshot, the snapshot has every change of the database up to the mtime
\* the database file has now: its entries are those a read of the database
\* gives.
C28_RecordedMtimeNotAhead ==
    \A id \in MgrIds :
        (mgrs[id].cache # None /\ ~hasDbChanged(mgrs[id].cache, Some(dbMtime)))
            => ChangesIn(The(mgrs[id].cache).items)
                   = ChangesIn(readZoteroDatabase(db, TRUE).items)

\* How many times updateCache is called at most.
MaxCalls == 3

\* The collections a read of the database can return.
DrawnCollections == {"c1", "c2"}

\* The manager holds no snapshot and there is no cache file; stored is the
\* collections argument of the latest call that made or replaced a snapshot.
CollectionsInit ==
    /\ settings = ConfiguredSettings
    /\ mgrs = <<NewManager("P")>>
    /\ disk = None
    /\ ex = [op |-> "none", calls |-> 0, stored |-> None]
    /\ db = <<>>
    /\ dbMtime = 1
    /\ singleton = 1
    /\ flows = <<>>
    /\ modal = <<>>

\* onOpen gives what it read to updateCache, with the keys of an incremental
\* read, with no keys or with none at all, and saves the cache; the write
\* succeeds or throws.
CallUpdateCache ==
    /\ ex.calls < MaxCalls
    /\ \E items \in DrawnItemsUpTo(MaxItems), collections \in DrawnCollections,
          keys \in {"incremental", "empty", "omitted"}, writeOk \in BOOLEAN :
          LET updatedItemKeys ==
                  IF keys = "omitted" THEN None
                  ELSE IF keys = "incremental" THEN Some(CitationKeysOf(items))
                  ELSE Some(<<>>)
              updated == updateCache(mgrs[1].cache, items, collections,
                                     updatedItemKeys, Some(dbMtime))
              replaces == \/ mgrs[1].cache = None
                          \/ updatedItemKeys = None
                          \/ updatedItemKeys = Some(<<>>)
          IN  /\ mgrs' = [mgrs EXCEPT ![1].cache = saveCacheMemory(updated)]
              /\ disk' = saveCacheFile(updated, disk, writeOk)
              /\ ex' = [op |-> "updateCache", calls |-> ex.calls + 1,
                        before |-> mgrs[1].cache,
                        items |-> items, collections |-> collections,
                        updatedItemKeys |-> updatedItemKeys, writeOk |-> writeOk,
                        stored |-> IF replaces THEN Some(collections)
                                   ELSE ex.stored]
    /\ UNCHANGED <<settings, db, dbMtime, singleton, flows, modal>>

CollectionsNext == CallUpdateCache

SpecCollections == CollectionsInit /\ [][CollectionsNext]_vars

\* The call recorded was one with a non-empty list of keys on a manager that
\* held a snapshot.
WasIncremental ==
    /\ ex.op = "updateCache"
    /\ ex.before # None
    /\ ex.updatedItemKeys # None
    /\ ex.updatedItemKeys # Some(<<>>)

\* C30: updateCache with a non-empty list of keys leaves the collections of
\* the snapshot as they were; after any calls the snapshot in memory, and
\* the cache file once written, hold the collections given to the latest
\* call that made or replaced a snapshot; and a call that makes or replaces
\* one stores both the entries and the collections it is given.
C30_IncrementalKeepsCollections ==
    ex.op = "updateCache" =>
        LET cache == The(mgrs[1].cache)
        IN  /\ WasIncremental => cache.collections = The(ex.before).collections
            /\ cache.collections = The(ex.stored)
            /\ ex.writeOk => JSONparse(The(disk)).collections = The(ex.stored)
            /\ ~WasIncremental =>
                   /\ cache.items = ex.items
                   /\ cache.collections = ex.collections

\* An incremental call was given other collections than the snapshot held,
\* and the cache was written.
C30_Witness ==
    /\ WasIncremental
    /\ ex.collections # The(ex.before).collections
    /\ ex.items # <<>>
    /\ ex.writeOk

====
